---- MODULE Spec2Model ----
(***************************************************************************)
(* State-machine model of the ZK-AgentMesh ledger contracts:               *)
(*   - ZKAgentVerificationCore  (contracts/src/Counter.sol)                *)
(*   - ZKVerificationLib        (unnamed/part_004)                         *)
(*   - ZKQueryProcessor         (contracts/src/ZKAgentGovernance.sol)      *)
(*   - AgentRegistry            (monorepo/apps/agent-runtime/src/server.ts)*)
(*   - AgentReputationNFT       (contracts/src/AgentReputationNFT.sol)     *)
(*   - ZKAgentGovernance        (contracts/src/ZKAgentGovernance.sol)      *)
(* and of the verification circuits (circuits/*.circom, unnamed/part_00x). *)
(* A circuit instance is a template with its input signals; proving it       *)
(* computes the witness as the template assigns it and checks the template's *)
(* constraints: the outcome is the output signals, or a failed constraint.   *)
(* Every external call is one transaction.  A transaction either succeeds  *)
(* and applies all its writes, or reverts and leaves the ledger unchanged;  *)
(* its receipt (operation, success flag, revert reason) is kept in `last`.  *)
(* Amounts of ether are counted in finney (0.001 ether); the ether the     *)
(* registry collects (and withdrawFees, which only moves it) is not kept.   *)
(* All amounts explored are far below 2^256, so the checked uint256         *)
(* arithmetic never overflows and is written as integer arithmetic.         *)
(***************************************************************************)
EXTENDS Integers, Sequences, FiniteSets, TLC

VARIABLES
    now,                    \* block.timestamp of the block being built
    agents,                 \* ZKAgentVerificationCore.agents
    verificationResults,    \* ZKAgentVerificationCore.verificationResults
    registeredAgents,       \* ZKAgentVerificationCore.registeredAgents
    totalRegisteredAgents,  \* ZKAgentVerificationCore.totalRegisteredAgents
    registrationFee,        \* ZKAgentVerificationCore.registrationFee
    verificationFee,        \* ZKAgentVerificationCore.verificationFee
    verificationSubmitted,  \* log of VerificationSubmitted events
    queries,                \* ZKQueryProcessor.queries
    agentCapabilities,      \* ZKQueryProcessor.agentCapabilities
    platformFeePercent,     \* ZKQueryProcessor.platformFeePercent
    tokenBalance,           \* paymentToken balances
    registryAgents,         \* AgentRegistry.agents
    proofInheritances,      \* AgentRegistry.proofInheritances
    proofRoyalties,         \* AgentRegistry.proofRoyalties
    registryRegisteredAgents, \* AgentRegistry.registeredAgents
    runs,                   \* circuit instances: template, input signals, outcome
    frame,                  \* ZKQueryProcessor: reentrancy status and the call in progress
    reputationData,         \* AgentReputationNFT.reputationData
    agentToTokenId,         \* AgentReputationNFT.agentToTokenId
    tokenIdCounter,         \* AgentReputationNFT._tokenIdCounter
    nftVerificationContract, \* AgentReputationNFT.verificationContract
    tokenOwners,            \* ERC721._owners of AgentReputationNFT
    proposals,              \* ZKAgentGovernance.proposals
    disputes,               \* ZKAgentGovernance.disputes
    nextProposalId,         \* ZKAgentGovernance.nextProposalId
    nextDisputeId,          \* ZKAgentGovernance.nextDisputeId
    votingPeriod,           \* ZKAgentGovernance.votingPeriod
    minimumQuorum,          \* ZKAgentGovernance.minimumQuorum
    disputeDeposit,         \* ZKAgentGovernance.disputeDeposit
    governanceBalance,      \* governanceToken balances
    last                    \* receipt of the last transaction

coreVars == <<agents, verificationResults, registeredAgents, totalRegisteredAgents,
              registrationFee, verificationFee, verificationSubmitted>>
qpVars == <<queries, agentCapabilities, platformFeePercent, tokenBalance>>
registryVars == <<registryAgents, proofInheritances, proofRoyalties,
                  registryRegisteredAgents>>
nftVars == <<reputationData, agentToTokenId, tokenIdCounter, nftVerificationContract,
             tokenOwners>>
govVars == <<proposals, disputes, nextProposalId, nextDisputeId, votingPeriod,
             minimumQuorum, disputeDeposit, governanceBalance>>
otherVars == <<registryVars, runs, frame, nftVars, govVars>>
ledgerVars == <<now, coreVars, qpVars, otherVars>>
vars == <<now, coreVars, qpVars, otherVars, last>>

----------------------------------------------------------------------------
(* Bounds of the model *)

\* block timestamps run over 0..MaxTime
MaxTime == 1
\* accepted proof submissions explored
MaxVerifications == 4

----------------------------------------------------------------------------
(* Values *)

ZeroAddress == "0x0"
Owner == "owner"
Users == {"alice", "bob"}
AgentIds == {"a1", "a2"}
MetadataURIs == {"ipfs://m"}
ZeroHash == <<>>
NoError == ""

\* enum VerificationType, by ordinal
TRAINING_QUALITY == 0
ETHICS_COMPLIANCE == 1
REGULATORY_COMPLIANCE == 2
CAPABILITY_VERIFICATION == 3
REPUTATION_SCORING == 4
INCENTIVE_ALIGNMENT == 5
DYNAMIC_ADAPTATION == 6
PRIVACY_QUERY_PROCESSING == 7

\* uint256 public verificationFee = 0.01 ether;  registrationFee = 0.005 ether
InitialVerificationFee == 10
InitialRegistrationFee == 5

\* A Groth16 proof; the components verifyProof does not read are written as the
\* fixed limbs a1, b01, b10, b11, c1 = 0.
Proof(a0, b00, c0) == [a0 |-> a0, b00 |-> b00, c0 |-> c0]
ValidProof == Proof(1, 1, 1)

\* keccak256(abi.encodePacked(proof.a[0], proof.a[1], proof.b[0][0], ...,
\* proof.c[1])): injective on the packed limbs, modelled as the tuple of limbs
ProofHashOf(proof) == <<proof.a0, 0, proof.b00, 0, 0, 0, proof.c0, 0>>

\* public input vectors (Solidity index i is TLA+ index i + 1)
ShortInputs == <<1>>
QueryInputs == <<1, 77>>
FullInputs == <<1, 77, 0, 0, 900>>

----------------------------------------------------------------------------
(* ZKVerificationLib *)

\* ZKVerificationLib.verifyProof: the verifying key and the public inputs are
\* not read
verifyProof(proof, publicInputs) ==
    proof.a0 # 0 /\ proof.b00 # 0 /\ proof.c0 # 0

----------------------------------------------------------------------------
(* Receipts *)

Receipt(op, ok, err) == [op |-> op, ok |-> ok, err |-> err]

\* a reverted transaction: no write survives
Revert(op, err) ==
    /\ last' = Receipt(op, FALSE, err)
    /\ UNCHANGED ledgerVars

----------------------------------------------------------------------------
(* ZKAgentVerificationCore *)

ZeroAgent ==
    [creator |-> ZeroAddress, metadataURI |-> "", registrationTime |-> 0,
     isActive |-> FALSE, totalVerifications |-> 0, lastVerificationTime |-> 0,
     verificationProofs |-> {}]

ZeroResult ==
    [qualityVerified |-> FALSE, ethicsVerified |-> FALSE,
     complianceVerified |-> FALSE, capabilityVerified |-> FALSE,
     reputationScore |-> 0, timestamp |-> 0, masterProofHash |-> ZeroHash]

registerAgentError_NoDuplicateCheck(agentId, sender, value) ==
    IF value < registrationFee THEN "Insufficient registration fee"
    ELSE NoError

\* the require chain of registerAgent
registerAgentError(agentId, sender, value) ==
    IF value < registrationFee THEN "Insufficient registration fee"
    ELSE IF agents[agentId].creator # ZeroAddress THEN "Agent already registered"
    ELSE NoError

registerAgent(agentId, metadataURI, sender, value) ==
    LET err == registerAgentError(agentId, sender, value) IN
    IF err # NoError THEN Revert("registerAgent", err)
    ELSE
        /\ agents' = [agents EXCEPT ![agentId] =
              [@ EXCEPT !.creator = sender,
                        !.metadataURI = metadataURI,
                        !.registrationTime = now,
                        !.isActive = TRUE]]
        /\ registeredAgents' = Append(registeredAgents, agentId)
        /\ totalRegisteredAgents' = totalRegisteredAgents + 1
        /\ last' = Receipt("registerAgent", TRUE, NoError)
        /\ UNCHANGED <<otherVars, now, verificationResults, registrationFee, verificationFee,
                       verificationSubmitted, qpVars>>

submitVerificationProofError_NoCreatorCheck(agentId, sender, value, proof, publicInputs) ==
    IF agents[agentId].creator = ZeroAddress THEN "Agent does not exist"
    ELSE IF value < verificationFee THEN "Insufficient verification fee"
    ELSE IF ~verifyProof(proof, publicInputs) THEN "Invalid proof"
    ELSE NoError

\* modifiers agentExists, onlyAgentCreator, then the requires of the body
submitVerificationProofError(agentId, sender, value, proof, publicInputs) ==
    IF agents[agentId].creator = ZeroAddress THEN "Agent does not exist"
    ELSE IF agents[agentId].creator # sender THEN "Not agent creator"
    ELSE IF value < verificationFee THEN "Insufficient verification fee"
    ELSE IF ~verifyProof(proof, publicInputs) THEN "Invalid proof"
    ELSE NoError

categoryUpdate_ClearsEthics(result, verificationType) ==
    IF verificationType = TRAINING_QUALITY
        THEN [result EXCEPT !.qualityVerified = TRUE, !.ethicsVerified = FALSE]
    ELSE IF verificationType = ETHICS_COMPLIANCE THEN [result EXCEPT !.ethicsVerified = TRUE]
    ELSE IF verificationType = REGULATORY_COMPLIANCE THEN [result EXCEPT !.complianceVerified = TRUE]
    ELSE IF verificationType = CAPABILITY_VERIFICATION THEN [result EXCEPT !.capabilityVerified = TRUE]
    ELSE result

categoryUpdate_AlsoReputation(result, verificationType) ==
    IF verificationType = TRAINING_QUALITY THEN [result EXCEPT !.qualityVerified = TRUE]
    ELSE IF verificationType = ETHICS_COMPLIANCE THEN [result EXCEPT !.ethicsVerified = TRUE]
    ELSE IF verificationType = REGULATORY_COMPLIANCE THEN [result EXCEPT !.complianceVerified = TRUE]
    ELSE IF verificationType = CAPABILITY_VERIFICATION THEN [result EXCEPT !.capabilityVerified = TRUE]
    ELSE IF verificationType = REPUTATION_SCORING THEN [result EXCEPT !.capabilityVerified = TRUE]
    ELSE result

\* the if / else-if chain on verificationType
categoryUpdate(result, verificationType) ==
    IF verificationType = TRAINING_QUALITY THEN [result EXCEPT !.qualityVerified = TRUE]
    ELSE IF verificationType = ETHICS_COMPLIANCE THEN [result EXCEPT !.ethicsVerified = TRUE]
    ELSE IF verificationType = REGULATORY_COMPLIANCE THEN [result EXCEPT !.complianceVerified = TRUE]
    ELSE IF verificationType = CAPABILITY_VERIFICATION THEN [result EXCEPT !.capabilityVerified = TRUE]
    ELSE result

allCategoriesVerified(result) ==
    /\ result.qualityVerified
    /\ result.ethicsVerified
    /\ result.complianceVerified
    /\ result.capabilityVerified

\* _updateFullVerificationStatus; the keccak256 of the packed fields is
\* modelled as the tuple of the fields
updateFullVerificationStatus(agentId, result, publicInputs) ==
    LET r == IF Len(publicInputs) > 4
             THEN [result EXCEPT !.reputationScore = publicInputs[5]]
             ELSE result
    IN  [r EXCEPT !.masterProofHash =
            <<agentId, r.qualityVerified, r.ethicsVerified, r.complianceVerified,
              r.capabilityVerified, r.reputationScore, now>>]

submitVerificationProof(agentId, verificationType, proof, publicInputs, sender, value) ==
    LET err == submitVerificationProofError(agentId, sender, value, proof, publicInputs) IN
    IF err # NoError THEN Revert("submitVerificationProof", err)
    ELSE
        LET r1 == categoryUpdate(verificationResults[agentId], verificationType)
            r2 == [r1 EXCEPT !.timestamp = now]
            r3 == IF allCategoriesVerified(r2)
                  THEN updateFullVerificationStatus(agentId, r2, publicInputs)
                  ELSE r2
        IN
        /\ agents' = [agents EXCEPT ![agentId] =
              [@ EXCEPT !.verificationProofs = @ \cup {ProofHashOf(proof)},
                        !.totalVerifications = @ + 1,
                        !.lastVerificationTime = now]]
        /\ verificationResults' = [verificationResults EXCEPT ![agentId] = r3]
        /\ verificationSubmitted' = verificationSubmitted \cup {<<agentId, verificationType>>}
        /\ last' = Receipt("submitVerificationProof", TRUE, NoError)
        /\ UNCHANGED <<otherVars, now, registeredAgents, totalRegisteredAgents, registrationFee,
                       verificationFee, qpVars>>

setFees(newRegistrationFee, newVerificationFee, sender) ==
    IF sender # Owner THEN Revert("setFees", "Ownable: caller is not the owner")
    ELSE
        /\ registrationFee' = newRegistrationFee
        /\ verificationFee' = newVerificationFee
        /\ last' = Receipt("setFees", TRUE, NoError)
        /\ UNCHANGED <<otherVars, now, agents, verificationResults, registeredAgents,
                       totalRegisteredAgents, verificationSubmitted, qpVars>>

RECURSIVE SumOver(_, _)
SumOver(f, S) ==
    IF S = {} THEN 0
    ELSE LET x == CHOOSE y \in S : TRUE IN f[x] + SumOver(f, S \ {x})

\* agents[id].totalVerifications summed over the agents
acceptedSubmissions ==
    SumOver([id \in AgentIds |-> agents[id].totalVerifications], AgentIds)

isAgentFullyVerified(agentId) ==
    allCategoriesVerified(verificationResults[agentId])

----------------------------------------------------------------------------
(* The ledger's clock: the next block is built *)

Tick ==
    /\ now < MaxTime
    /\ now' = now + 1
    /\ UNCHANGED <<coreVars, qpVars, otherVars, last>>

----------------------------------------------------------------------------
(* ZKQueryProcessor *)

QP == "ZKQueryProcessor"
Accounts == Users \cup {Owner, QP}

\* payment tokens the requester holds when the processor is deployed
RequesterFunds == 100

\* uint256 public platformFeePercent = 250; FEE_DENOMINATOR = 10000;
\* require(_platformFeePercent <= 1000); the loop bound of the clearing loop;
\* calculateQueryPayment(agentId, queryType, 500); the divisor 1000
InitialPlatformFeePercent == 250
FEE_DENOMINATOR == 10000
MaxPlatformFeePercent == 1000
ClearedTypes == 100
MediumComplexity == 500
ComplexityDivisor == 1000

QueryTypes == {99, 100}
QueryHashes == {"h1"}
TypeLists == {<<>>, <<99>>, <<100>>, <<99, 100>>}
Range(seq) == {seq[i] : i \in DOMAIN seq}

\* keccak256(abi.encodePacked(agentId, msg.sender, queryType, queryHash,
\* block.timestamp)), modelled as the tuple of the packed fields
QueryIdOf(agentId, sender, queryType, queryHash, timestamp) ==
    <<agentId, sender, queryType, queryHash, timestamp>>

ZeroQuery ==
    [agentId |-> "", requester |-> ZeroAddress, queryType |-> 0, paymentAmount |-> 0,
     timestamp |-> 0, processed |-> FALSE, responseCommitment |-> 0]

\* mapping(bytes32 => QueryRequest): the domain of `queries` is the set of keys
\* written so far, every other key reads as the zero record
queryOf(queryId) ==
    IF queryId \in DOMAIN queries THEN queries[queryId] ELSE ZeroQuery
queriesWith(queryId, record) ==
    [q \in DOMAIN queries \cup {queryId} |->
        IF q = queryId THEN record ELSE queries[q]]

ZeroCapabilities ==
    [supportedQueryTypes |-> {}, basePrice |-> 0, complexityMultiplier |-> 0,
     acceptingQueries |-> FALSE]

\* IERC20.transfer / transferFrom of the payment token (allowances are taken as
\* granted): moves `amount`, or fails when `from` holds less
tokenCanPay(from, amount) == tokenBalance[from] >= amount
tokenAfterTransfer(from, to, amount) ==
    [tokenBalance EXCEPT ![from] = @ - amount, ![to] = @ + amount]

\* for (i = 0; i < 100; i++) supportedQueryTypes[i] = false
clearExisting(supported) == {t \in supported : ~(t < ClearedTypes)}

setAgentCapabilitiesError(agentId) ==
    IF ~isAgentFullyVerified(agentId) THEN "Agent not verified" ELSE NoError

setAgentCapabilities(agentId, supportedQueryTypes, basePrice, complexityMultiplier, sender) ==
    LET err == setAgentCapabilitiesError(agentId) IN
    IF err # NoError THEN Revert("setAgentCapabilities", err)
    ELSE
        /\ agentCapabilities' = [agentCapabilities EXCEPT ![agentId] =
              [supportedQueryTypes |->
                   clearExisting(@.supportedQueryTypes) \cup Range(supportedQueryTypes),
               basePrice |-> basePrice,
               complexityMultiplier |-> complexityMultiplier,
               acceptingQueries |-> TRUE]]
        /\ last' = Receipt("setAgentCapabilities", TRUE, NoError)
        /\ UNCHANGED <<otherVars, now, coreVars, queries, platformFeePercent, tokenBalance>>

isQueryTypeSupported(agentId, queryType) ==
    queryType \in agentCapabilities[agentId].supportedQueryTypes

calculateQueryPayment(agentId, queryType, estimatedComplexity) ==
    LET c == agentCapabilities[agentId] IN
    c.basePrice + (estimatedComplexity * c.complexityMultiplier) \div ComplexityDivisor

submitQueryError_NoSupportCheck(agentId, queryType, paymentAmount, sender) ==
    IF ~isAgentFullyVerified(agentId) THEN "Agent not verified"
    ELSE IF ~agentCapabilities[agentId].acceptingQueries THEN "Agent not accepting queries"
    ELSE IF paymentAmount < calculateQueryPayment(agentId, queryType, MediumComplexity)
        THEN "Insufficient payment"
    ELSE IF ~tokenCanPay(sender, paymentAmount) THEN "Payment transfer failed"
    ELSE NoError

\* the require chain of submitQuery
submitQueryError(agentId, queryType, paymentAmount, sender) ==
    IF ~isAgentFullyVerified(agentId) THEN "Agent not verified"
    ELSE IF ~isQueryTypeSupported(agentId, queryType) THEN "Query type not supported"
    ELSE IF ~agentCapabilities[agentId].acceptingQueries THEN "Agent not accepting queries"
    ELSE IF paymentAmount < calculateQueryPayment(agentId, queryType, MediumComplexity)
        THEN "Insufficient payment"
    ELSE IF ~tokenCanPay(sender, paymentAmount) THEN "Payment transfer failed"
    ELSE NoError

submitQuery(agentId, queryType, paymentAmount, queryHash, sender) ==
    LET err == submitQueryError(agentId, queryType, paymentAmount, sender)
        queryId == QueryIdOf(agentId, sender, queryType, queryHash, now)
    IN
    IF err # NoError THEN Revert("submitQuery", err)
    ELSE
        /\ tokenBalance' = tokenAfterTransfer(sender, QP, paymentAmount)
        /\ queries' = queriesWith(queryId,
              [agentId |-> agentId, requester |-> sender, queryType |-> queryType,
               paymentAmount |-> paymentAmount, timestamp |-> now,
               processed |-> FALSE, responseCommitment |-> 0])
        /\ last' = Receipt("submitQuery", TRUE, NoError)
        /\ UNCHANGED <<otherVars, now, coreVars, agentCapabilities, platformFeePercent>>

platformFeeOf_RoundedUp(paymentAmount) ==
    (paymentAmount * platformFeePercent + FEE_DENOMINATOR - 1) \div FEE_DENOMINATOR

\* (query.paymentAmount * platformFeePercent) / FEE_DENOMINATOR
platformFeeOf(paymentAmount) ==
    (paymentAmount * platformFeePercent) \div FEE_DENOMINATOR

agentPaymentOf(paymentAmount) == paymentAmount - platformFeeOf(paymentAmount)

submitQueryProcessingProofError_NoProcessedCheck(queryId, proof, publicInputs) ==
    LET query == queryOf(queryId) IN
    IF query.requester = ZeroAddress THEN "Query does not exist"
    ELSE IF ~verifyProof(proof, publicInputs) THEN "Invalid processing proof"
    ELSE IF Len(publicInputs) < 2 THEN "Panic(0x32)"
    ELSE IF ~tokenCanPay(QP, agentPaymentOf(query.paymentAmount))
        THEN "ERC20: transfer amount exceeds balance"
    ELSE NoError

\* the requires of submitQueryProcessingProof, the bounds check of
\* publicInputs[1] and the token's own balance check
submitQueryProcessingProofError(queryId, proof, publicInputs) ==
    LET query == queryOf(queryId) IN
    IF query.processed THEN "Query already processed"
    ELSE IF query.requester = ZeroAddress THEN "Query does not exist"
    ELSE IF ~verifyProof(proof, publicInputs) THEN "Invalid processing proof"
    ELSE IF Len(publicInputs) < 2 THEN "Panic(0x32)"
    ELSE IF ~tokenCanPay(QP, agentPaymentOf(query.paymentAmount))
        THEN "ERC20: transfer amount exceeds balance"
    ELSE NoError

submitQueryProcessingProof(queryId, proof, publicInputs, sender) ==
    LET err == submitQueryProcessingProofError(queryId, proof, publicInputs)
        query == queryOf(queryId)
        agentCreator == agents[query.agentId].creator
    IN
    IF err # NoError THEN Revert("submitQueryProcessingProof", err)
    ELSE
        /\ queries' = queriesWith(queryId,
              [query EXCEPT !.responseCommitment = publicInputs[2],
                            !.processed = TRUE])
        /\ tokenBalance' = tokenAfterTransfer(QP, agentCreator,
                                              agentPaymentOf(query.paymentAmount))
        /\ last' = Receipt("submitQueryProcessingProof", TRUE, NoError)
        /\ UNCHANGED <<otherVars, now, coreVars, agentCapabilities, platformFeePercent>>

setPlatformFee(newPlatformFeePercent, sender) ==
    IF sender # Owner THEN Revert("setPlatformFee", "Ownable: caller is not the owner")
    ELSE IF ~(newPlatformFeePercent <= MaxPlatformFeePercent)
        THEN Revert("setPlatformFee", "Fee too high")
    ELSE
        /\ platformFeePercent' = newPlatformFeePercent
        /\ last' = Receipt("setPlatformFee", TRUE, NoError)
        /\ UNCHANGED <<otherVars, now, coreVars, queries, agentCapabilities, tokenBalance>>

withdrawPlatformFees(sender) ==
    IF sender # Owner
    THEN Revert("withdrawPlatformFees", "Ownable: caller is not the owner")
    ELSE
        /\ tokenBalance' = tokenAfterTransfer(QP, Owner, tokenBalance[QP])
        /\ last' = Receipt("withdrawPlatformFees", TRUE, NoError)
        /\ UNCHANGED <<otherVars, now, coreVars, queries, agentCapabilities, platformFeePercent>>

----------------------------------------------------------------------------
(* ZKQueryProcessor: a settlement whose token transfer calls back *)

\* ReentrancyGuard._status
NOT_ENTERED == "NOT_ENTERED"
ENTERED == "ENTERED"

\* no call of the processor is executing
IdleFrame ==
    [status |-> NOT_ENTERED, pc |-> "idle", queryId |-> <<>>, to |-> ZeroAddress,
     amount |-> 0, saved |-> <<>>]

nonReentrantError_NoGuard(status) == NoError

\* modifier nonReentrant: require(_status != ENTERED)
nonReentrantError(status) ==
    IF status = ENTERED THEN "ReentrancyGuard: reentrant call" ELSE NoError

\* submitQueryProcessingProof up to the call of paymentToken.transfer: the
\* guard is taken, the requires are checked, responseCommitment and processed
\* are written, and the call of the token is pending
enterProcessingProof(queryId, proof, publicInputs, sender) ==
    LET guard == nonReentrantError(frame.status)
        err == submitQueryProcessingProofError(queryId, proof, publicInputs)
        query == queryOf(queryId)
    IN
    /\ frame.pc = "idle"
    /\ IF guard # NoError THEN Revert("submitQueryProcessingProof", guard)
       ELSE IF err \notin {NoError, "ERC20: transfer amount exceeds balance"}
           THEN Revert("submitQueryProcessingProof", err)
       ELSE
           /\ queries' = queriesWith(queryId,
                 [query EXCEPT !.responseCommitment = publicInputs[2],
                               !.processed = TRUE])
           /\ frame' = [status |-> ENTERED, pc |-> "transfer", queryId |-> queryId,
                        to |-> agents[query.agentId].creator,
                        amount |-> agentPaymentOf(query.paymentAmount),
                        saved |-> qpVars]
           /\ last' = Receipt("submitQueryProcessingProof", FALSE, "executing")
           /\ UNCHANGED <<now, coreVars, agentCapabilities, platformFeePercent,
                          tokenBalance, registryVars, runs, nftVars, govVars>>

\* the token, while executing the transfer, calls submitQueryProcessingProof
tokenCallsProcessingProof(queryId, proof, publicInputs, sender) ==
    LET guard == nonReentrantError(frame.status) IN
    /\ frame.pc = "transfer"
    /\ IF guard # NoError THEN Revert("submitQueryProcessingProof", guard)
       ELSE submitQueryProcessingProof(queryId, proof, publicInputs, sender)

\* the token, while executing the transfer, calls submitQuery
tokenCallsSubmitQuery(agentId, queryType, paymentAmount, queryHash, sender) ==
    LET guard == nonReentrantError(frame.status) IN
    /\ frame.pc = "transfer"
    /\ IF guard # NoError THEN Revert("submitQuery", guard)
       ELSE submitQuery(agentId, queryType, paymentAmount, queryHash, sender)

\* the whole transaction reverts: the writes made since it was entered are undone
revertProcessingProof(err) ==
    /\ queries' = frame.saved[1]
    /\ agentCapabilities' = frame.saved[2]
    /\ platformFeePercent' = frame.saved[3]
    /\ tokenBalance' = frame.saved[4]
    /\ frame' = IdleFrame
    /\ last' = Receipt("submitQueryProcessingProof", FALSE, err)
    /\ UNCHANGED <<now, coreVars, registryVars, runs, nftVars, govVars>>

\* paymentToken.transfer(agentCreator, agentPayment) returns: the tokens have
\* moved and the guard is released, or the token refuses and the transaction
\* reverts
completeTransfer ==
    /\ frame.pc = "transfer"
    /\ IF ~tokenCanPay(QP, frame.amount)
       THEN revertProcessingProof("ERC20: transfer amount exceeds balance")
       ELSE /\ tokenBalance' = tokenAfterTransfer(QP, frame.to, frame.amount)
            /\ frame' = IdleFrame
            /\ last' = Receipt("submitQueryProcessingProof", TRUE, NoError)
            /\ UNCHANGED <<now, coreVars, queries, agentCapabilities, platformFeePercent,
                           registryVars, runs, nftVars, govVars>>

\* paymentToken.transfer returns false: require(..., "Agent payment failed")
failTransfer ==
    /\ frame.pc = "transfer"
    /\ revertProcessingProof("Agent payment failed")

----------------------------------------------------------------------------
(* AgentReputationNFT *)

\* the address of the deployed ZKAgentVerificationCore, which the constructor
\* stores as verificationContract
Core == "ZKAgentVerificationCore"

\* uint256 private _tokenIdCounter = 1
FirstTokenId == 1

\* tokens minted, over all agents
MaxTokens == 2

ZeroReputationMetadata ==
    [agentId |-> "", reputationScore |-> 0, verificationCount |-> 0,
     lastUpdated |-> 0, metadataURI |-> ""]

\* ERC721._exists and ERC721.ownerOf of a token id
tokenExists(tokenId) == tokenId \in DOMAIN tokenOwners
ownerOfToken(tokenId) == IF tokenExists(tokenId) THEN tokenOwners[tokenId] ELSE ZeroAddress

mintReputationNFTError_NoExistenceCheck(agentId, agentCreator, sender) ==
    IF sender # nftVerificationContract THEN "Only verification contract"
    ELSE IF agentCreator = ZeroAddress THEN "ERC721: mint to the zero address"
    ELSE NoError

\* onlyVerificationContract, the require of mintReputationNFT and the require
\* of ERC721._mint
mintReputationNFTError(agentId, agentCreator, sender) ==
    IF sender # nftVerificationContract THEN "Only verification contract"
    ELSE IF agentToTokenId[agentId] # 0 THEN "NFT already exists for agent"
    ELSE IF agentCreator = ZeroAddress THEN "ERC721: mint to the zero address"
    ELSE NoError

mintReputationNFT(agentId, agentCreator, reputationScore, metadataURI, sender) ==
    LET err == mintReputationNFTError(agentId, agentCreator, sender)
        tokenId == tokenIdCounter
    IN
    IF err # NoError THEN Revert("mintReputationNFT", err)
    ELSE
        /\ tokenIdCounter' = tokenIdCounter + 1
        /\ tokenOwners' = [t \in DOMAIN tokenOwners \cup {tokenId} |->
                              IF t = tokenId THEN agentCreator ELSE tokenOwners[t]]
        /\ reputationData' = [t \in DOMAIN reputationData \cup {tokenId} |->
              IF t = tokenId
              THEN [agentId |-> agentId, reputationScore |-> reputationScore,
                    verificationCount |-> 1, lastUpdated |-> now,
                    metadataURI |-> metadataURI]
              ELSE reputationData[t]]
        /\ agentToTokenId' = [agentToTokenId EXCEPT ![agentId] = tokenId]
        /\ last' = Receipt("mintReputationNFT", TRUE, NoError)
        /\ UNCHANGED <<now, coreVars, qpVars, registryVars, runs, frame, govVars,
                       nftVerificationContract>>

updateReputation(agentId, newReputationScore, sender) ==
    LET tokenId == agentToTokenId[agentId] IN
    IF sender # nftVerificationContract
    THEN Revert("updateReputation", "Only verification contract")
    ELSE IF tokenId = 0 THEN Revert("updateReputation", "NFT does not exist")
    ELSE
        /\ reputationData' = [reputationData EXCEPT ![tokenId] =
              [@ EXCEPT !.reputationScore = newReputationScore,
                        !.verificationCount = @ + 1,
                        !.lastUpdated = now]]
        /\ last' = Receipt("updateReputation", TRUE, NoError)
        /\ UNCHANGED <<now, coreVars, qpVars, registryVars, runs, frame, govVars,
                       agentToTokenId, tokenIdCounter, nftVerificationContract,
                       tokenOwners>>

setVerificationContract(verificationContract, sender) ==
    IF sender # Owner
    THEN Revert("setVerificationContract", "Ownable: caller is not the owner")
    ELSE
        /\ nftVerificationContract' = verificationContract
        /\ last' = Receipt("setVerificationContract", TRUE, NoError)
        /\ UNCHANGED <<now, coreVars, qpVars, registryVars, runs, frame, govVars,
                       reputationData, agentToTokenId, tokenIdCounter, tokenOwners>>

\* _beforeTokenTransfer: require(from == address(0) || to == address(0))
beforeTokenTransferError(from, to) ==
    IF from = ZeroAddress \/ to = ZeroAddress THEN NoError
    ELSE "Reputation NFTs are non-transferable"

\* ERC721.transferFrom: the caller is the owner of the token (no approval is
\* ever given), _transfer requires the owner to be `from` and `to` not to be
\* the zero address, and then runs _beforeTokenTransfer
transferFromError(from, to, tokenId, sender) ==
    IF ~tokenExists(tokenId) THEN "ERC721: invalid token ID"
    ELSE IF ownerOfToken(tokenId) # sender
        THEN "ERC721: caller is not token owner or approved"
    ELSE IF ownerOfToken(tokenId) # from THEN "ERC721: transfer from incorrect owner"
    ELSE IF to = ZeroAddress THEN "ERC721: transfer to the zero address"
    ELSE beforeTokenTransferError(from, to)

transferFrom(from, to, tokenId, sender) ==
    LET err == transferFromError(from, to, tokenId, sender) IN
    IF err # NoError THEN Revert("transferFrom", err)
    ELSE
        /\ tokenOwners' = [tokenOwners EXCEPT ![tokenId] = to]
        /\ last' = Receipt("transferFrom", TRUE, NoError)
        /\ UNCHANGED <<now, coreVars, qpVars, registryVars, runs, frame, govVars,
                       reputationData, agentToTokenId, tokenIdCounter,
                       nftVerificationContract>>

----------------------------------------------------------------------------
(* ZKAgentGovernance *)

\* the address of the governance contract as a holder of governance tokens
Gov == "ZKAgentGovernance"
GovAccounts == Users \cup {Owner, Gov}

\* governance tokens are counted in whole tokens (10**18 base units):
\* createProposal requires 100 * 10**18, disputeDeposit = 100 * 10**18,
\* minimumQuorum = 1000, votingPeriod = 7 days, nextProposalId = nextDisputeId = 1
ProposalThreshold == 100
InitialDisputeDeposit == 100
InitialMinimumQuorum == 1000
InitialVotingPeriod == 604800
FirstProposalId == 1
FirstDisputeId == 1

\* governance tokens held when the contract is deployed
AliceGovernanceTokens == 150
BobGovernanceTokens == 100
InitialGovernanceBalance ==
    [a \in GovAccounts |-> IF a = "alice" THEN AliceGovernanceTokens
                           ELSE IF a = "bob" THEN BobGovernanceTokens ELSE 0]

\* block.timestamp as the governance contract reads it: the timestamp of a
\* block is never 0, so the clock is read one above the model's `now`
blockTimestamp == now + 1

ZeroProposal ==
    [id |-> 0, proposer |-> ZeroAddress, description |-> "", forVotes |-> 0,
     againstVotes |-> 0, abstainVotes |-> 0, startTime |-> 0, endTime |-> 0,
     executed |-> FALSE, hasVoted |-> {}, voteChoice |-> <<>>]

ZeroDispute ==
    [id |-> 0, agentId |-> "", complainant |-> ZeroAddress, description |-> "",
     deposit |-> 0, resolved |-> FALSE, upheld |-> FALSE, createdAt |-> 0]

\* proposals[proposalId] and disputes[disputeId]: a slot never written reads as
\* the zero struct
proposalOf(proposalId) ==
    IF proposalId \in DOMAIN proposals THEN proposals[proposalId] ELSE ZeroProposal
disputeOf(disputeId) ==
    IF disputeId \in DOMAIN disputes THEN disputes[disputeId] ELSE ZeroDispute

\* the mapping m with slot k written to v
withSlot(m, k, v) == [i \in DOMAIN m \cup {k} |-> IF i = k THEN v ELSE m[i]]

createProposal(description, sender) ==
    IF governanceBalance[sender] < ProposalThreshold
    THEN Revert("createProposal", "Insufficient tokens")
    ELSE
        LET proposalId == nextProposalId IN
        /\ nextProposalId' = nextProposalId + 1
        /\ proposals' = withSlot(proposals, proposalId,
              [proposalOf(proposalId) EXCEPT !.id = proposalId,
                                             !.proposer = sender,
                                             !.description = description,
                                             !.startTime = blockTimestamp,
                                             !.endTime = blockTimestamp + votingPeriod])
        /\ last' = Receipt("createProposal", TRUE, NoError)
        /\ UNCHANGED <<now, coreVars, qpVars, registryVars, runs, frame, nftVars,
                       disputes, nextDisputeId, votingPeriod, minimumQuorum,
                       disputeDeposit, governanceBalance>>

voteError_NoRepeatCheck(proposalId, choice, sender) ==
    LET proposal == proposalOf(proposalId) IN
    IF blockTimestamp < proposal.startTime THEN "Voting not started"
    ELSE IF blockTimestamp > proposal.endTime THEN "Voting ended"
    ELSE IF choice > 2 THEN "Invalid choice"
    ELSE IF governanceBalance[sender] = 0 THEN "No voting power"
    ELSE NoError

\* the require chain of vote
voteError(proposalId, choice, sender) ==
    LET proposal == proposalOf(proposalId) IN
    IF blockTimestamp < proposal.startTime THEN "Voting not started"
    ELSE IF blockTimestamp > proposal.endTime THEN "Voting ended"
    ELSE IF sender \in proposal.hasVoted THEN "Already voted"
    ELSE IF choice > 2 THEN "Invalid choice"
    ELSE IF governanceBalance[sender] = 0 THEN "No voting power"
    ELSE NoError

\* mapping(address => uint256) voteChoice with the sender's choice written
withChoice(voteChoice, sender, choice) ==
    [a \in DOMAIN voteChoice \cup {sender} |->
        IF a = sender THEN choice ELSE voteChoice[a]]

vote(proposalId, choice, sender) ==
    LET err == voteError(proposalId, choice, sender)
        proposal == proposalOf(proposalId)
        power == governanceBalance[sender]
    IN
    IF err # NoError THEN Revert("vote", err)
    ELSE
        /\ proposals' = withSlot(proposals, proposalId,
              [proposal EXCEPT
                  !.hasVoted = @ \cup {sender},
                  !.voteChoice = withChoice(@, sender, choice),
                  !.againstVotes = IF choice = 0 THEN @ + power ELSE @,
                  !.forVotes = IF choice = 1 THEN @ + power ELSE @,
                  !.abstainVotes = IF choice # 0 /\ choice # 1 THEN @ + power ELSE @])
        /\ last' = Receipt("vote", TRUE, NoError)
        /\ UNCHANGED <<now, coreVars, qpVars, registryVars, runs, frame, nftVars,
                       disputes, nextProposalId, nextDisputeId, votingPeriod,
                       minimumQuorum, disputeDeposit, governanceBalance>>

totalVotes(proposal) == proposal.forVotes + proposal.againstVotes + proposal.abstainVotes

executeProposal(proposalId, sender) ==
    LET proposal == proposalOf(proposalId) IN
    IF ~(blockTimestamp > proposal.endTime)
    THEN Revert("executeProposal", "Voting still active")
    ELSE IF proposal.executed THEN Revert("executeProposal", "Already executed")
    ELSE IF totalVotes(proposal) < minimumQuorum
        THEN Revert("executeProposal", "Insufficient quorum")
    ELSE
        /\ proposals' = withSlot(proposals, proposalId, [proposal EXCEPT !.executed = TRUE])
        /\ last' = Receipt("executeProposal", TRUE, NoError)
        /\ UNCHANGED <<now, coreVars, qpVars, registryVars, runs, frame, nftVars,
                       disputes, nextProposalId, nextDisputeId, votingPeriod,
                       minimumQuorum, disputeDeposit, governanceBalance>>

\* IERC20 transfer / transferFrom of the governance token (allowances are taken
\* as granted): reverts when `from` holds less, or when `to` is the zero address
governanceTransferError(from, to, amount) ==
    IF to = ZeroAddress THEN "ERC20: transfer to the zero address"
    ELSE IF governanceBalance[from] < amount THEN "ERC20: transfer amount exceeds balance"
    ELSE NoError
governanceAfterTransfer(from, to, amount) ==
    [a \in GovAccounts |->
        governanceBalance[a] - (IF a = from THEN amount ELSE 0)
                             + (IF a = to THEN amount ELSE 0)]

\* a holder moves governance tokens to another account
governanceTransfer(to, amount, sender) ==
    LET err == governanceTransferError(sender, to, amount) IN
    IF err # NoError THEN Revert("governanceToken.transfer", err)
    ELSE
        /\ governanceBalance' = governanceAfterTransfer(sender, to, amount)
        /\ last' = Receipt("governanceToken.transfer", TRUE, NoError)
        /\ UNCHANGED <<now, coreVars, qpVars, registryVars, runs, frame, nftVars,
                       proposals, disputes, nextProposalId, nextDisputeId,
                       votingPeriod, minimumQuorum, disputeDeposit>>

createDispute(agentId, description, sender) ==
    LET err == governanceTransferError(sender, Gov, disputeDeposit)
        disputeId == nextDisputeId
    IN
    IF err # NoError THEN Revert("createDispute", err)
    ELSE
        /\ governanceBalance' = governanceAfterTransfer(sender, Gov, disputeDeposit)
        /\ nextDisputeId' = nextDisputeId + 1
        /\ disputes' = withSlot(disputes, disputeId,
              [id |-> disputeId, agentId |-> agentId, complainant |-> sender,
               description |-> description, deposit |-> disputeDeposit,
               resolved |-> FALSE, upheld |-> FALSE, createdAt |-> blockTimestamp])
        /\ last' = Receipt("createDispute", TRUE, NoError)
        /\ UNCHANGED <<now, coreVars, qpVars, registryVars, runs, frame, nftVars,
                       proposals, nextProposalId, votingPeriod, minimumQuorum,
                       disputeDeposit>>

\* onlyOwner, the require of resolveDispute and the return of the deposit
resolveDisputeError(disputeId, upheld, sender) ==
    LET dispute == disputeOf(disputeId) IN
    IF sender # Owner THEN "Ownable: caller is not the owner"
    ELSE IF dispute.resolved THEN "Already resolved"
    ELSE IF upheld THEN governanceTransferError(Gov, dispute.complainant, dispute.deposit)
    ELSE NoError

resolveDispute(disputeId, upheld, sender) ==
    LET err == resolveDisputeError(disputeId, upheld, sender)
        dispute == disputeOf(disputeId)
    IN
    IF err # NoError THEN Revert("resolveDispute", err)
    ELSE
        /\ disputes' = withSlot(disputes, disputeId,
              [dispute EXCEPT !.resolved = TRUE, !.upheld = upheld])
        /\ governanceBalance' =
              IF upheld
              THEN governanceAfterTransfer(Gov, dispute.complainant, dispute.deposit)
              ELSE governanceBalance
        /\ last' = Receipt("resolveDispute", TRUE, NoError)
        /\ UNCHANGED <<now, coreVars, qpVars, registryVars, runs, frame, nftVars,
                       proposals, nextProposalId, nextDisputeId, votingPeriod,
                       minimumQuorum, disputeDeposit>>

setVotingPeriod(newVotingPeriod, sender) ==
    IF sender # Owner THEN Revert("setVotingPeriod", "Ownable: caller is not the owner")
    ELSE
        /\ votingPeriod' = newVotingPeriod
        /\ last' = Receipt("setVotingPeriod", TRUE, NoError)
        /\ UNCHANGED <<now, coreVars, qpVars, registryVars, runs, frame, nftVars,
                       proposals, disputes, nextProposalId, nextDisputeId,
                       minimumQuorum, disputeDeposit, governanceBalance>>

setMinimumQuorum(newMinimumQuorum, sender) ==
    IF sender # Owner THEN Revert("setMinimumQuorum", "Ownable: caller is not the owner")
    ELSE
        /\ minimumQuorum' = newMinimumQuorum
        /\ last' = Receipt("setMinimumQuorum", TRUE, NoError)
        /\ UNCHANGED <<now, coreVars, qpVars, registryVars, runs, frame, nftVars,
                       proposals, disputes, nextProposalId, nextDisputeId,
                       votingPeriod, disputeDeposit, governanceBalance>>

setDisputeDeposit(newDisputeDeposit, sender) ==
    IF sender # Owner THEN Revert("setDisputeDeposit", "Ownable: caller is not the owner")
    ELSE
        /\ disputeDeposit' = newDisputeDeposit
        /\ last' = Receipt("setDisputeDeposit", TRUE, NoError)
        /\ UNCHANGED <<now, coreVars, qpVars, registryVars, runs, frame, nftVars,
                       proposals, disputes, nextProposalId, nextDisputeId,
                       votingPeriod, minimumQuorum, governanceBalance>>

----------------------------------------------------------------------------
(* AgentRegistry *)

\* inheritance edges explored, over all agents
MaxInheritances == 2

RegistryIds == {"r1", "r2"}
EmptyId == ""
RegistryProofHashes == {"p1", "p2"}
RegistryMetadata == {"Qm1"}

ZeroRegistryAgent ==
    [owner |-> ZeroAddress, metadataHash |-> "", proofHashes |-> <<>>,
     verificationLevel |-> 0, registrationTime |-> 0, isActive |-> FALSE]

\* ProofInheritance({fromAgent, proofHash, inheritanceTime})
ProofInheritance(fromAgent, proofHash, inheritanceTime) ==
    [fromAgent |-> fromAgent, proofHash |-> proofHash,
     inheritanceTime |-> inheritanceTime]

\* agents[id] of the registry; the empty string is a key that is never written
registryAgentOf(agentId) ==
    IF agentId \in RegistryIds THEN registryAgents[agentId] ELSE ZeroRegistryAgent

AgentRegistry_registerAgentError(agentId) ==
    IF agentId = EmptyId THEN "Agent ID cannot be empty"
    ELSE IF registryAgentOf(agentId).owner # ZeroAddress THEN "Agent already registered"
    ELSE NoError

AgentRegistry_registerAgent(agentId, metadataHash, proofHashes, sender) ==
    LET err == AgentRegistry_registerAgentError(agentId) IN
    IF err # NoError THEN Revert("AgentRegistry.registerAgent", err)
    ELSE
        /\ registryAgents' = [registryAgents EXCEPT ![agentId] =
              [owner |-> sender, metadataHash |-> metadataHash,
               proofHashes |-> proofHashes, verificationLevel |-> Len(proofHashes),
               registrationTime |-> now, isActive |-> TRUE]]
        /\ registryRegisteredAgents' = Append(registryRegisteredAgents, agentId)
        /\ last' = Receipt("AgentRegistry.registerAgent", TRUE, NoError)
        /\ UNCHANGED <<nftVars, govVars, runs, frame, now, coreVars, qpVars, proofInheritances, proofRoyalties>>

updateProofsError_NoActiveCheck(agentId, sender) ==
    IF registryAgentOf(agentId).owner # sender THEN "Only agent owner can update proofs"
    ELSE NoError

\* the require chain of updateProofs
updateProofsError(agentId, sender) ==
    IF registryAgentOf(agentId).owner # sender THEN "Only agent owner can update proofs"
    ELSE IF ~registryAgentOf(agentId).isActive THEN "Agent is not active"
    ELSE NoError

updateProofs(agentId, proofHashes, sender) ==
    LET err == updateProofsError(agentId, sender) IN
    IF err # NoError THEN Revert("updateProofs", err)
    ELSE
        /\ registryAgents' = [registryAgents EXCEPT ![agentId] =
              [@ EXCEPT !.proofHashes = proofHashes,
                        !.verificationLevel = Len(proofHashes)]]
        /\ last' = Receipt("updateProofs", TRUE, NoError)
        /\ UNCHANGED <<nftVars, govVars, runs, frame, now, coreVars, qpVars, proofInheritances, proofRoyalties,
                       registryRegisteredAgents>>

\* the loop over sourceProofs: some element equals proofHash
proofExists(sourceProofs, proofHash) ==
    \E i \in 1..Len(sourceProofs) : sourceProofs[i] = proofHash

inheritProofError_NoProofCheck(fromAgent, toAgent, proofHash, sender) ==
    IF registryAgentOf(toAgent).owner # sender THEN "Only target agent owner can inherit"
    ELSE IF ~registryAgentOf(fromAgent).isActive THEN "Source agent is not active"
    ELSE IF ~registryAgentOf(toAgent).isActive THEN "Target agent is not active"
    ELSE NoError

\* the require chain of inheritProof
inheritProofError(fromAgent, toAgent, proofHash, sender) ==
    IF registryAgentOf(toAgent).owner # sender THEN "Only target agent owner can inherit"
    ELSE IF ~registryAgentOf(fromAgent).isActive THEN "Source agent is not active"
    ELSE IF ~registryAgentOf(toAgent).isActive THEN "Target agent is not active"
    ELSE IF ~proofExists(registryAgentOf(fromAgent).proofHashes, proofHash)
        THEN "Proof does not exist in source agent"
    ELSE NoError

pushInheritance_Twice(list, edge) == Append(Append(list, edge), edge)

pushInheritance_Overwrites(list, edge) ==
    IF list = <<>> THEN <<edge>> ELSE [list EXCEPT ![Len(list)] = edge]

\* proofInheritances[toAgent].push(...)
pushInheritance(list, edge) == Append(list, edge)

inheritProof(fromAgent, toAgent, proofHash, sender) ==
    LET err == inheritProofError(fromAgent, toAgent, proofHash, sender)
        fromOwner == registryAgentOf(fromAgent).owner
    IN
    IF err # NoError THEN Revert("inheritProof", err)
    ELSE
        /\ proofInheritances' = [proofInheritances EXCEPT ![toAgent] =
              pushInheritance(@, ProofInheritance(fromAgent, proofHash, now))]
        /\ proofRoyalties' = [proofRoyalties EXCEPT ![fromAgent][fromOwner] = @ + 1]
        /\ last' = Receipt("inheritProof", TRUE, NoError)
        /\ UNCHANGED <<nftVars, govVars, runs, frame, now, coreVars, qpVars, registryAgents, registryRegisteredAgents>>

deactivateAgent(agentId, sender) ==
    IF registryAgentOf(agentId).owner # sender
    THEN Revert("deactivateAgent", "Only agent owner can deactivate")
    ELSE
        /\ registryAgents' = [registryAgents EXCEPT ![agentId] =
              [@ EXCEPT !.isActive = FALSE]]
        /\ last' = Receipt("deactivateAgent", TRUE, NoError)
        /\ UNCHANGED <<nftVars, govVars, runs, frame, now, coreVars, qpVars, proofInheritances, proofRoyalties,
                       registryRegisteredAgents>>

\* the edges recorded so far, over all agents
totalInheritances ==
    SumOver([id \in RegistryIds |-> Len(proofInheritances[id])], RegistryIds)

----------------------------------------------------------------------------
(* Circuit primitives *)

\* Poseidon(k): a sponge hash of the ordered inputs, taken as injective and
\* modelled as the tuple of its inputs
Poseidon(inputs) == <<"Poseidon">> \o inputs

\* 2^n
RECURSIVE Pow2(_)
Pow2(n) == IF n = 0 THEN 1 ELSE 2 * Pow2(n - 1)

\* circomlib LessThan(n): Num2Bits(n+1) of in[0] + 2^n - in[1], out = 1 - bit n.
\* The bit decomposition is a constraint: it fails when the value does not fit
\* n+1 bits.
LessThan(n, a, b) ==
    LET v == a + Pow2(n) - b IN
    [satisfied |-> 0 <= v /\ v < Pow2(n + 1),
     out |-> IF a < b THEN 1 ELSE 0]

GreaterEqThan_Strict(n, a, b) == LessThan(n, b, a)

\* circomlib GreaterEqThan(n): LessThan(n) of in[1] and in[0] + 1
GreaterEqThan(n, a, b) == LessThan(n, b, a + 1)

LessEqThan_Strict(n, a, b) == LessThan(n, a, b)

\* circomlib LessEqThan(n): LessThan(n) of in[0] and in[1] + 1
LessEqThan(n, a, b) == LessThan(n, a, b + 1)

\* circomlib IsEqual: out = 1 when the inputs are equal, 0 otherwise
IsEqual(a, b) == IF a = b THEN 1 ELSE 0

\* the width GreaterEqThan(10) / LessEqThan(10) are instantiated with
ComparatorBits == 10

RECURSIVE SeqSum(_)
SeqSum(values) ==
    IF values = <<>> THEN 0
    ELSE SeqSum(SubSeq(values, 1, Len(values) - 1)) + values[Len(values)]

runningProduct_Sum(flags) == SeqSum(flags)

\* products[0] <== 1; products[i + 1] <== products[i] * flags[i]; the value of
\* products[n]
RECURSIVE runningProduct(_)
runningProduct(flags) ==
    IF flags = <<>> THEN 1
    ELSE runningProduct(SubSeq(flags, 1, Len(flags) - 1)) * flags[Len(flags)]

AverageCalculator_Unconstrained(values) ==
    [satisfied |-> TRUE, average |-> SeqSum(values) \div Len(values)]

\* AverageCalculator(n): tempAverage <-- sum \ n, then the constraint
\* tempAverage * n === sum
AverageCalculator(values) ==
    LET n == Len(values)
        sum == SeqSum(values)
        tempAverage == sum \div n
    IN  [satisfied |-> tempAverage * n = sum, average |-> tempAverage]

\* HarmfulContentCounter(n): the partial sums of the flags
HarmfulContentCounter(flags) == SeqSum(flags)

----------------------------------------------------------------------------
(* TrainingQualityVerifier *)

\* training_samples and model_responses enter no constraint and no output and
\* are left out of the input record; n_metrics is not used by the template
TrainingQualityVerifier_AverageOnly(in) ==
    LET avg == AverageCalculator(in.quality_scores)
        quality_check == GreaterEqThan(ComparatorBits, avg.average, in.min_quality_threshold)
    IN  [satisfied |-> avg.satisfied /\ quality_check.satisfied,
         quality_verified |-> quality_check.out,
         average_quality |-> avg.average,
         training_proof_hash |->
             Poseidon(<<in.agent_id, in.training_seed, avg.average, in.creator_address>>),
         model_integrity_proof |->
             Poseidon(<<in.model_weights_hash, in.training_seed, in.agent_id>>)]

TrainingQualityVerifier(in) ==
    LET n == Len(in.quality_scores)
        sample_checks == [i \in 1..n |->
            GreaterEqThan(ComparatorBits, in.quality_scores[i], in.min_quality_threshold)]
        avg == AverageCalculator(in.quality_scores)
        quality_check == GreaterEqThan(ComparatorBits, avg.average, in.min_quality_threshold)
        final_quality_product == runningProduct([i \in 1..n |-> sample_checks[i].out])
    IN  [satisfied |-> /\ avg.satisfied
                       /\ quality_check.satisfied
                       /\ \A i \in 1..n : sample_checks[i].satisfied,
         quality_verified |-> quality_check.out * final_quality_product,
         average_quality |-> avg.average,
         training_proof_hash |->
             Poseidon(<<in.agent_id, in.training_seed, avg.average, in.creator_address>>),
         model_integrity_proof |->
             Poseidon(<<in.model_weights_hash, in.training_seed, in.agent_id>>)]

----------------------------------------------------------------------------
(* EthicsComplianceVerifier *)

\* red_team_results enters no constraint and is left out of the input record
EthicsComplianceVerifier(in) ==
    LET nb == Len(in.bias_test_results)
        ne == Len(in.fairness_scores)
        bias_checker == [i \in 1..nb |->
            LessEqThan(ComparatorBits, in.bias_test_results[i], in.max_bias_threshold)]
        fairness_checker == [i \in 1..ne |->
            GreaterEqThan(ComparatorBits, in.fairness_scores[i], in.min_fairness_score)]
        bias_compliance == runningProduct([i \in 1..nb |-> bias_checker[i].out])
        fairness_compliance == runningProduct([i \in 1..ne |-> fairness_checker[i].out])
        harmful_rate_check ==
            LessEqThan(ComparatorBits, HarmfulContentCounter(in.harmful_content_flags),
                       in.max_harmful_rate)
        safety_compliance == harmful_rate_check.out
    IN  [satisfied |-> /\ \A i \in 1..nb : bias_checker[i].satisfied
                       /\ \A i \in 1..ne : fairness_checker[i].satisfied
                       /\ harmful_rate_check.satisfied,
         ethics_verified |-> (bias_compliance * fairness_compliance) * safety_compliance,
         bias_compliance |-> bias_compliance,
         fairness_compliance |-> fairness_compliance,
         safety_compliance |-> safety_compliance,
         ethics_proof_hash |->
             Poseidon(<<in.agent_id, bias_compliance, safety_compliance,
                        in.ethics_commitment_hash, in.ethics_training_data_hash>>)]

----------------------------------------------------------------------------
(* ComplianceVerifier *)

\* encryption_checker[i].in[1] <== 800
MinEncryptionScore == 800

DataTypeEncoder_Unweighted(permissions) == SeqSum(permissions)

\* DataTypeEncoder(n): accumulator[i] = accumulator[i-1] + permissions[i] * 2^i
RECURSIVE DataTypeEncoder(_)
DataTypeEncoder(permissions) ==
    IF permissions = <<>> THEN 0
    ELSE DataTypeEncoder(SubSeq(permissions, 1, Len(permissions) - 1))
         + permissions[Len(permissions)] * Pow2(Len(permissions) - 1)

ComplianceVerifier_NoEncryptionFloor(in) ==
    LET n == Len(in.privacy_protection_scores)
        privacy_checker == [i \in 1..n |->
            GreaterEqThan(ComparatorBits, in.privacy_protection_scores[i], in.min_privacy_score)]
        data_handling_checker == [i \in 1..n |->
            GreaterEqThan(ComparatorBits, in.data_handling_scores[i], in.min_data_handling_score)]
        encryption_checker == [i \in 1..n |->
            GreaterEqThan(ComparatorBits, in.encryption_standards[i], MinEncryptionScore)]
        privacy_avg == AverageCalculator(in.privacy_protection_scores)
        data_avg == AverageCalculator(in.data_handling_scores)
        privacy_product == runningProduct([i \in 1..n |-> privacy_checker[i].out])
        data_product == runningProduct([i \in 1..n |-> data_handling_checker[i].out])
        encryption_product == runningProduct([i \in 1..n |-> encryption_checker[i].out])
        compliance_verified == privacy_product * data_product
        supported_data_types == DataTypeEncoder(in.data_category_permissions)
    IN  [satisfied |-> /\ privacy_avg.satisfied
                       /\ data_avg.satisfied
                       /\ \A i \in 1..n : /\ privacy_checker[i].satisfied
                                          /\ data_handling_checker[i].satisfied
                                          /\ encryption_checker[i].satisfied,
         compliance_verified |-> compliance_verified,
         privacy_level |-> privacy_avg.average,
         data_handling_level |-> data_avg.average,
         supported_data_types |-> supported_data_types,
         compliance_proof_hash |->
             Poseidon(<<in.agent_id, compliance_verified, privacy_avg.average,
                        data_avg.average, supported_data_types,
                        in.compliance_commitment_hash>>)]

\* retention_policies and required_compliance_standard enter no constraint and
\* are left out of the input record
ComplianceVerifier(in) ==
    LET n == Len(in.privacy_protection_scores)
        privacy_checker == [i \in 1..n |->
            GreaterEqThan(ComparatorBits, in.privacy_protection_scores[i], in.min_privacy_score)]
        data_handling_checker == [i \in 1..n |->
            GreaterEqThan(ComparatorBits, in.data_handling_scores[i], in.min_data_handling_score)]
        encryption_checker == [i \in 1..n |->
            GreaterEqThan(ComparatorBits, in.encryption_standards[i], MinEncryptionScore)]
        privacy_avg == AverageCalculator(in.privacy_protection_scores)
        data_avg == AverageCalculator(in.data_handling_scores)
        privacy_product == runningProduct([i \in 1..n |-> privacy_checker[i].out])
        data_product == runningProduct([i \in 1..n |-> data_handling_checker[i].out])
        encryption_product == runningProduct([i \in 1..n |-> encryption_checker[i].out])
        compliance_verified == (privacy_product * data_product) * encryption_product
        supported_data_types == DataTypeEncoder(in.data_category_permissions)
    IN  [satisfied |-> /\ privacy_avg.satisfied
                       /\ data_avg.satisfied
                       /\ \A i \in 1..n : /\ privacy_checker[i].satisfied
                                          /\ data_handling_checker[i].satisfied
                                          /\ encryption_checker[i].satisfied,
         compliance_verified |-> compliance_verified,
         privacy_level |-> privacy_avg.average,
         data_handling_level |-> data_avg.average,
         supported_data_types |-> supported_data_types,
         compliance_proof_hash |->
             Poseidon(<<in.agent_id, compliance_verified, privacy_avg.average,
                        data_avg.average, supported_data_types,
                        in.compliance_commitment_hash>>)]

----------------------------------------------------------------------------
(* IncentiveAlignmentVerifier and DynamicAdaptationVerifier *)

\* alignment_verified and adaptation_verified are assigned a product of three
\* comparator outputs
IncentiveAlignmentVerifier(in) ==
    LET user_benefit_avg == AverageCalculator(in.user_benefit_scores)
        societal_avg == AverageCalculator(in.societal_impact_scores)
        efficiency_avg == AverageCalculator(in.economic_efficiency_scores)
        sustainability_avg == AverageCalculator(in.long_term_sustainability_scores)
        stakeholder_avg == AverageCalculator(in.stakeholder_satisfaction)
        user_benefit_check ==
            GreaterEqThan(ComparatorBits, user_benefit_avg.average, in.min_user_benefit_threshold)
        societal_check ==
            GreaterEqThan(ComparatorBits, societal_avg.average, in.min_societal_impact_threshold)
        misalignment_check ==
            LessEqThan(ComparatorBits, HarmfulContentCounter(in.misalignment_incidents),
                       in.max_misalignment_rate)
        alignment_verified ==
            user_benefit_check.out * societal_check.out * misalignment_check.out
    IN  [satisfied |-> /\ user_benefit_avg.satisfied /\ societal_avg.satisfied
                       /\ efficiency_avg.satisfied /\ sustainability_avg.satisfied
                       /\ stakeholder_avg.satisfied
                       /\ user_benefit_check.satisfied /\ societal_check.satisfied
                       /\ misalignment_check.satisfied,
         alignment_verified |-> alignment_verified,
         user_benefit_level |-> user_benefit_avg.average,
         societal_impact_level |-> societal_avg.average,
         economic_efficiency_level |-> efficiency_avg.average,
         sustainability_score |-> sustainability_avg.average,
         alignment_proof_hash |->
             Poseidon(<<in.agent_id, alignment_verified, user_benefit_avg.average,
                        societal_avg.average, efficiency_avg.average,
                        sustainability_avg.average, stakeholder_avg.average,
                        in.alignment_commitment_hash>>)]

\* adaptation_metadata enters no constraint and is left out of the input record
DynamicAdaptationVerifier(in) ==
    LET adaptation_avg == AverageCalculator(in.adaptation_success_rates)
        principle_avg == AverageCalculator(in.principle_preservation_scores)
        efficiency_avg == AverageCalculator(in.learning_efficiency_scores)
        transfer_avg == AverageCalculator(in.knowledge_transfer_scores)
        stability_avg == AverageCalculator(in.stability_during_adaptation)
        adaptation_check ==
            GreaterEqThan(ComparatorBits, adaptation_avg.average, in.min_adaptation_success_rate)
        principle_check ==
            GreaterEqThan(ComparatorBits, principle_avg.average,
                          in.min_principle_preservation_score)
        efficiency_check ==
            GreaterEqThan(ComparatorBits, efficiency_avg.average, in.min_learning_efficiency)
        adaptation_verified ==
            adaptation_check.out * principle_check.out * efficiency_check.out
    IN  [satisfied |-> /\ adaptation_avg.satisfied /\ principle_avg.satisfied
                       /\ efficiency_avg.satisfied /\ transfer_avg.satisfied
                       /\ stability_avg.satisfied
                       /\ adaptation_check.satisfied /\ principle_check.satisfied
                       /\ efficiency_check.satisfied,
         adaptation_verified |-> adaptation_verified,
         adaptation_success_rate |-> adaptation_avg.average,
         principle_preservation_level |-> principle_avg.average,
         learning_efficiency |-> efficiency_avg.average,
         stability_score |-> stability_avg.average,
         adaptation_proof_hash |->
             Poseidon(<<in.agent_id, adaptation_verified, adaptation_avg.average,
                        principle_avg.average, efficiency_avg.average,
                        stability_avg.average, in.adaptation_commitment_hash>>)]

----------------------------------------------------------------------------
(* IndexSelector and CapabilityVerifier *)

\* products[i] <== IsEqual(index, i) * values[i], for the indices i = 0..n-1
selectorProducts(values, index) ==
    [i \in 1..Len(values) |-> IsEqual(index, i - 1) * values[i]]

\* IndexSelector(n): the one signal `sum` is constrained by sum <== 0 and, for
\* every i, by sum <== sum + products[i]; the constraints hold only when every
\* product is 0.  selected_value is the value the assignments leave in sum.
IndexSelector(values, index) ==
    LET products == selectorProducts(values, index) IN
    [satisfied |-> \A i \in 1..Len(values) : products[i] = 0,
     selected_value |-> SeqSum(products)]

\* performance_benchmarks enters no constraint and is left out of the input
\* record; the selectors read the first n_query_types capability scores
CapabilityVerifier(in) ==
    LET n_query_types == Len(in.query_type_support)
        score_selector ==
            IndexSelector(SubSeq(in.capability_scores, 1, n_query_types),
                          in.required_query_type)
        coverage_selector ==
            IndexSelector(in.training_domain_coverage, in.required_query_type)
        support_selector == IndexSelector(in.query_type_support, in.required_query_type)
        capability_check ==
            GreaterEqThan(ComparatorBits, score_selector.selected_value,
                          in.min_capability_score)
        coverage_check ==
            GreaterEqThan(ComparatorBits, coverage_selector.selected_value,
                          in.min_training_coverage)
    IN  [satisfied |-> /\ score_selector.satisfied /\ coverage_selector.satisfied
                       /\ support_selector.satisfied
                       /\ capability_check.satisfied /\ coverage_check.satisfied,
         capability_verified |->
             capability_check.out * coverage_check.out * support_selector.selected_value,
         capability_score |-> score_selector.selected_value,
         training_coverage |-> coverage_selector.selected_value,
         capability_proof_hash |->
             Poseidon(<<in.agent_id, in.required_query_type,
                        score_selector.selected_value, coverage_selector.selected_value,
                        in.model_architecture_hash>>)]

----------------------------------------------------------------------------
(* QueryComplexityCalculator and PaymentValidityChecker *)

\* the weights of the eight metadata entries and their sum
ComplexityWeights == <<10, 5, 3, 8, 2, 4, 6, 1>>
ComplexityWeightSum == 39

\* weighted_sum <== metadata[0] * 10 + ... + metadata[7] * 1;
\* complexity <== weighted_sum \ 39
QueryComplexityCalculator(metadata) ==
    [satisfied |-> TRUE,
     complexity |-> SeqSum([i \in 1..Len(ComplexityWeights) |->
                               metadata[i] * ComplexityWeights[i]])
                    \div ComplexityWeightSum]

\* base_price <== 10; min_check = GreaterEqThan(16); max_check = LessEqThan(16)
BasePrice == 10
PaymentBits == 16

PaymentValidityChecker_ExactMatch(in) ==
    LET expected_payment == BasePrice * (1 + (in.complexity * 2) \div 1000)
        check == IsEqual(in.payment, expected_payment)
    IN  [satisfied |-> TRUE, valid |-> check]

\* the signals assigned with \ are taken at the value the assignment computes;
\* query_type enters no constraint and is left out of the input record
PaymentValidityChecker(in) ==
    LET complexity_multiplier == 1 + (in.complexity * 2) \div 1000
        expected_payment == BasePrice * complexity_multiplier
        min_payment == (expected_payment * 90) \div 100
        max_payment == (expected_payment * 110) \div 100
        min_check == GreaterEqThan(PaymentBits, in.payment, min_payment)
        max_check == LessEqThan(PaymentBits, in.payment, max_payment)
    IN  [satisfied |-> min_check.satisfied /\ max_check.satisfied,
         valid |-> min_check.out * max_check.out]

----------------------------------------------------------------------------
(* ReputationScorer *)

weightedReputation_Unscaled(interaction, satisfaction, reliability, quality, bias_free, error) ==
    interaction * 25 + satisfaction * 20 + reliability * 25 + quality * 15
      + bias_free * 10 + (1000 - error) * 5

\* weighted_reputation <== (interaction_avg.average * 25 + user_satisfaction_score * 20
\*   + reliability_score * 25 + quality_avg.average * 15 + bias_free_score * 10
\*   + (1000 - error_avg.average) * 5) \ 100
weightedReputation(interaction, satisfaction, reliability, quality, bias_free, error) ==
    (interaction * 25 + satisfaction * 20 + reliability * 25 + quality * 15
       + bias_free * 10 + (1000 - error) * 5) \div 100

\* ReputationScorer(n_historical_interactions, n_feedback_categories): the
\* number of interactions is the template parameter, here the length of the
\* input arrays.  bias_rate and weighted_reputation are assigned with an
\* integer division, which is not a quadratic constraint: they are taken at the
\* value the assignment computes.
ReputationScorer(in) ==
    LET n_historical_interactions == Len(in.interaction_outcomes)
        interaction_avg == AverageCalculator(in.interaction_outcomes)
        feedback_avg == AverageCalculator(in.user_feedback_scores)
        completion_avg == AverageCalculator(in.task_completion_rates)
        quality_avg == AverageCalculator(in.response_quality_scores)
        bias_counter == HarmfulContentCounter(in.bias_incident_flags)
        error_avg == AverageCalculator(in.error_rates)
        data_sufficiency_check ==
            GreaterEqThan(ComparatorBits, n_historical_interactions, in.minimum_interactions)
        reliability_score == completion_avg.average
        user_satisfaction_score == feedback_avg.average
        bias_rate == (bias_counter * 1000) \div n_historical_interactions
        bias_free_score == 1000 - bias_rate
        reputation_score ==
            weightedReputation(interaction_avg.average, user_satisfaction_score,
                               reliability_score, quality_avg.average,
                               bias_free_score, error_avg.average)
    IN  [satisfied |-> /\ interaction_avg.satisfied
                       /\ feedback_avg.satisfied
                       /\ completion_avg.satisfied
                       /\ quality_avg.satisfied
                       /\ error_avg.satisfied
                       /\ data_sufficiency_check.satisfied,
         reputation_score |-> reputation_score,
         reliability_score |-> reliability_score,
         user_satisfaction_score |-> user_satisfaction_score,
         bias_free_score |-> bias_free_score,
         reputation_proof_hash |->
             Poseidon(<<in.agent_id, reputation_score, reliability_score,
                        user_satisfaction_score, bias_free_score,
                        in.evaluation_period_start, in.evaluation_period_end>>),
         sufficient_data |-> data_sufficiency_check.out]

----------------------------------------------------------------------------
(* ZKAgentVerificationOrchestrator *)

\* the constants the orchestrator wires into its sub-verifiers
OrchestratorMinFairness == 700
OrchestratorMaxHarmfulRate == 50
OrchestratorMinDataHandling == 800
OrchestratorDataCategories == 8
OrchestratorTimestamp == 1719360000

orchestratorAnd_Or(a, b, c) == IF a + b + c > 0 THEN 1 ELSE 0

\* intermediate_verification <== quality * ethics;
\* agent_fully_verified <== intermediate_verification * compliance
orchestratorAnd(a, b, c) == (a * b) * c

\* the capability inputs are wired to no sub-verifier and are left out
ZKAgentVerificationOrchestrator(in) ==
    LET quality_verifier == TrainingQualityVerifier(
            [quality_scores |-> in.quality_scores,
             training_seed |-> in.training_seed,
             model_weights_hash |-> in.model_weights_hash,
             agent_id |-> in.agent_id,
             min_quality_threshold |-> in.min_quality_threshold,
             training_commitment_hash |-> in.training_commitment_hash,
             creator_address |-> in.creator_address])
        ethics_verifier == EthicsComplianceVerifier(
            [bias_test_results |-> in.bias_test_results,
             fairness_scores |-> in.fairness_scores,
             harmful_content_flags |-> in.harmful_content_flags,
             ethics_training_data_hash |-> in.ethics_training_data_hash,
             max_bias_threshold |-> in.max_bias_threshold,
             min_fairness_score |-> OrchestratorMinFairness,
             max_harmful_rate |-> OrchestratorMaxHarmfulRate,
             ethics_commitment_hash |-> in.ethics_commitment_hash,
             agent_id |-> in.agent_id])
        compliance_verifier == ComplianceVerifier(
            [privacy_protection_scores |-> in.privacy_protection_scores,
             data_handling_scores |-> in.data_handling_scores,
             encryption_standards |-> in.encryption_standards,
             data_category_permissions |-> [i \in 1..OrchestratorDataCategories |-> 1],
             min_privacy_score |-> in.min_privacy_score,
             min_data_handling_score |-> OrchestratorMinDataHandling,
             agent_id |-> in.agent_id,
             compliance_commitment_hash |-> in.compliance_commitment_hash])
        q == quality_verifier.quality_verified
        e == ethics_verifier.ethics_verified
        c == compliance_verifier.compliance_verified
    IN  [satisfied |-> /\ quality_verifier.satisfied
                       /\ ethics_verifier.satisfied
                       /\ compliance_verifier.satisfied,
         agent_fully_verified |-> orchestratorAnd(q, e, c),
         quality_verification_result |-> q,
         ethics_verification_result |-> e,
         compliance_verification_result |-> c,
         master_proof_hash |->
             Poseidon(<<in.agent_id, quality_verifier.training_proof_hash,
                        ethics_verifier.ethics_proof_hash,
                        compliance_verifier.compliance_proof_hash, q, e, c,
                        in.creator_address>>),
         verification_timestamp |-> OrchestratorTimestamp]

----------------------------------------------------------------------------
(* Circuit instances *)

\* the witness calculation of template `template` on the input signals `in`
evaluate(template, in) ==
    CASE template = "runningProduct" -> [satisfied |-> TRUE, out |-> runningProduct(in.flags)]
      [] template = "AverageCalculator" -> AverageCalculator(in.values)
      [] template = "IndexSelector" -> IndexSelector(in.values, in.index)
      [] template = "TrainingQualityVerifier" -> TrainingQualityVerifier(in)
      [] template = "EthicsComplianceVerifier" -> EthicsComplianceVerifier(in)
      [] template = "ComplianceVerifier" -> ComplianceVerifier(in)
      [] template = "IncentiveAlignmentVerifier" -> IncentiveAlignmentVerifier(in)
      [] template = "DynamicAdaptationVerifier" -> DynamicAdaptationVerifier(in)
      [] template = "CapabilityVerifier" -> CapabilityVerifier(in)
      [] template = "QueryComplexityCalculator" -> QueryComplexityCalculator(in.metadata)
      [] template = "PaymentValidityChecker" -> PaymentValidityChecker(in)
      [] template = "ReputationScorer" -> ReputationScorer(in)
      [] template = "DataTypeEncoder" ->
            [satisfied |-> TRUE, bitmask |-> DataTypeEncoder(in.permissions)]
      [] template = "GreaterEqThan" -> GreaterEqThan(ComparatorBits, in.a, in.b)
      [] template = "LessEqThan" -> LessEqThan(ComparatorBits, in.a, in.b)
      [] template = "ZKAgentVerificationOrchestrator" -> ZKAgentVerificationOrchestrator(in)

NoOutputs == [satisfied |-> FALSE]
Instance(template, in) ==
    [template |-> template, in |-> in, out |-> NoOutputs, state |-> "input"]

\* generate the witness of instance k: the outputs are produced when every
\* constraint holds, and the instance is rejected when one fails
Prove(k) ==
    /\ runs[k].state = "input"
    /\ LET out == evaluate(runs[k].template, runs[k].in) IN
       runs' = [runs EXCEPT ![k] =
                   [@ EXCEPT !.out = out,
                             !.state = IF out.satisfied THEN "witness" ELSE "rejected"]]
    /\ UNCHANGED <<now, coreVars, qpVars, registryVars, frame, nftVars, govVars, last>>

\* instance k has produced its outputs
proved(k) == k \in DOMAIN runs /\ runs[k].state = "witness"
\* instance k has been tried, with or without success
tried(k) == k \in DOMAIN runs /\ runs[k].state # "input"

----------------------------------------------------------------------------
(* Specifications *)

LedgerInit ==
    /\ now = 0
    /\ agents = [id \in AgentIds |-> ZeroAgent]
    /\ verificationResults = [id \in AgentIds |-> ZeroResult]
    /\ registeredAgents = <<>>
    /\ totalRegisteredAgents = 0
    /\ registrationFee = InitialRegistrationFee
    /\ verificationFee = InitialVerificationFee
    /\ verificationSubmitted = {}
    /\ queries = [q \in {} |-> ZeroQuery]
    /\ agentCapabilities = [id \in AgentIds |-> ZeroCapabilities]
    /\ platformFeePercent = InitialPlatformFeePercent
    /\ tokenBalance = [a \in Accounts |-> IF a = "alice" THEN RequesterFunds ELSE 0]
    /\ registryAgents = [id \in RegistryIds |-> ZeroRegistryAgent]
    /\ proofInheritances = [id \in RegistryIds |-> <<>>]
    /\ proofRoyalties = [id \in RegistryIds |-> [a \in Users \cup {ZeroAddress} |-> 0]]
    /\ registryRegisteredAgents = <<>>
    /\ frame = IdleFrame
    /\ reputationData = [t \in {} |-> ZeroReputationMetadata]
    /\ agentToTokenId = [id \in AgentIds |-> 0]
    /\ tokenIdCounter = FirstTokenId
    /\ nftVerificationContract = Core
    /\ tokenOwners = [t \in {} |-> ZeroAddress]
    /\ proposals = [i \in {} |-> ZeroProposal]
    /\ disputes = [i \in {} |-> ZeroDispute]
    /\ nextProposalId = FirstProposalId
    /\ nextDisputeId = FirstDisputeId
    /\ votingPeriod = InitialVotingPeriod
    /\ minimumQuorum = InitialMinimumQuorum
    /\ disputeDeposit = InitialDisputeDeposit
    /\ governanceBalance = InitialGovernanceBalance
    /\ last = Receipt("constructor", TRUE, NoError)

\* the contracts as deployed, no circuit instance
Init == LedgerInit /\ runs = <<>>

\* The query processor with one agent, registered and verified by bob, and
\* alice as requester
SpecTypeLists == {<<>>, <<99>>}
SpecMultipliers == {0, 121}
SpecPayments == {40, 100}
SettleIds == {"a1"} \X {"alice"} \X {99} \X QueryHashes \X (0..MaxTime)
SettleProofs == {ValidProof, Proof(1, 1, 0)}
SettleInputs == {ShortInputs, QueryInputs}

Next ==
    \/ Tick
    \/ \E uri \in MetadataURIs :
          registerAgent("a1", uri, "bob", InitialRegistrationFee)
    \/ \E t \in TRAINING_QUALITY..CAPABILITY_VERIFICATION :
          /\ acceptedSubmissions < MaxVerifications
          /\ submitVerificationProof("a1", t, ValidProof, FullInputs, "bob",
                                     InitialVerificationFee)
    \/ \E l \in SpecTypeLists, m \in SpecMultipliers, s \in Users :
          setAgentCapabilities("a1", l, 40, m, s)
    \/ \E t \in QueryTypes, p \in SpecPayments, h \in QueryHashes :
          submitQuery("a1", t, p, h, "alice")
    \/ \E q \in SettleIds, pr \in SettleProofs, pi \in SettleInputs :
          submitQueryProcessingProof(q, pr, pi, "bob")
    \/ \E f \in {InitialPlatformFeePercent, MaxPlatformFeePercent, MaxPlatformFeePercent + 1},
          s \in {Owner, "alice"} :
          setPlatformFee(f, s)
    \/ \E s \in {Owner, "alice"} : withdrawPlatformFees(s)

Spec == Init /\ [][Next]_vars

\* The query processor with an agent verified by bob and a payment token that
\* calls back into the processor while it executes a transfer; every
\* transaction starts while no call is executing
ReentrancyPayments == {40, 60}
ReentrancyHashes == {"h1", "h2"}
ReentrancyIds == {"a1"} \X {"alice"} \X {99} \X ReentrancyHashes \X {0}

NextReentrancy ==
    \/ /\ frame.pc = "idle"
       /\ \/ registerAgent("a1", "ipfs://m", "bob", InitialRegistrationFee)
          \/ \E t \in TRAINING_QUALITY..CAPABILITY_VERIFICATION :
                /\ <<"a1", t>> \notin verificationSubmitted
                /\ submitVerificationProof("a1", t, ValidProof, FullInputs, "bob",
                                           InitialVerificationFee)
          \/ setAgentCapabilities("a1", <<99>>, 40, 0, "bob")
          \/ \E p \in ReentrancyPayments, h \in ReentrancyHashes :
                submitQuery("a1", 99, p, h, "alice")
          \/ withdrawPlatformFees(Owner)
    \/ \E q \in ReentrancyIds, pr \in SettleProofs :
          enterProcessingProof(q, pr, QueryInputs, "bob")
    \/ \E q \in ReentrancyIds : tokenCallsProcessingProof(q, ValidProof, QueryInputs, "bob")
    \/ \E p \in ReentrancyPayments, h \in ReentrancyHashes, s \in Users :
          tokenCallsSubmitQuery("a1", 99, p, h, s)
    \/ completeTransfer
    \/ failTransfer

SpecReentrancy == Init /\ [][NextReentrancy]_vars

\* The verification registry alone: two callers, agent a1 and the
\* never-registered id a2
CoreValues == {InitialRegistrationFee, InitialVerificationFee}
CoreTypes == TRAINING_QUALITY..REPUTATION_SCORING
CoreInputs == {ShortInputs, FullInputs}
\* calls <<agentId, verificationType, proof, publicInputs, sender, value>>:
\* every well-proved call for a1, a refused proof from each caller, and a call
\* for a2
CoreSubmissions ==
    ({"a1"} \X CoreTypes \X {ValidProof} \X CoreInputs \X Users \X CoreValues)
    \cup ({"a1"} \X {TRAINING_QUALITY} \X {Proof(1, 1, 0)} \X {FullInputs} \X Users
             \X {InitialVerificationFee})
    \cup ({"a2"} \X {TRAINING_QUALITY} \X {ValidProof} \X {FullInputs} \X {"bob"}
             \X {InitialVerificationFee})

NextCore ==
    \/ Tick
    \/ \E uri \in MetadataURIs, s \in Users, v \in CoreValues :
          registerAgent("a1", uri, s, v)
    \/ \E c \in CoreSubmissions :
          /\ acceptedSubmissions < MaxVerifications
          /\ submitVerificationProof(c[1], c[2], c[3], c[4], c[5], c[6])
    \/ \E s \in {Owner, "alice"} :
          \/ setFees(InitialRegistrationFee, InitialVerificationFee, s)
          \/ setFees(InitialVerificationFee, InitialRegistrationFee, s)

SpecCore == Init /\ [][NextCore]_vars

\* The verification registry with submissions that follow the full
\* verification of agent a1: its creator bob submits proofs of every type, with
\* and without a reputation score among the public inputs
MaxMasterSubmissions == 5
RescoredInputs == <<1, 77, 0, 0, 5>>
MasterInputs == {ShortInputs, FullInputs, RescoredInputs}

NextMaster ==
    \/ Tick
    \/ registerAgent("a1", "ipfs://m", "bob", InitialRegistrationFee)
    \/ \E t \in CoreTypes, pi \in MasterInputs :
          /\ acceptedSubmissions < MaxMasterSubmissions
          /\ submitVerificationProof("a1", t, ValidProof, pi, "bob", InitialVerificationFee)

SpecMaster == Init /\ [][NextMaster]_vars

\* The verification registry when every proof submitted carries the public
\* output verified = 0 of a circuit run whose thresholds were not met
FailedInputs == <<0, 77, 0, 0, 900>>

NextOutcome ==
    \/ Tick
    \/ registerAgent("a1", "ipfs://m", "bob", InitialRegistrationFee)
    \/ \E t \in CoreTypes :
          /\ acceptedSubmissions < MaxMasterSubmissions
          /\ submitVerificationProof("a1", t, ValidProof, FailedInputs, "bob",
                                     InitialVerificationFee)

SpecOutcome == Init /\ [][NextOutcome]_vars

\* The capability lists of the query processor: every list over the query
\* types 99 and 100, for the verified agent a1 and the unregistered id a2
NextCaps ==
    \/ \E uri \in MetadataURIs :
          registerAgent("a1", uri, "bob", InitialRegistrationFee)
    \/ \E t \in TRAINING_QUALITY..CAPABILITY_VERIFICATION :
          /\ acceptedSubmissions < MaxVerifications
          /\ submitVerificationProof("a1", t, ValidProof, FullInputs, "bob",
                                     InitialVerificationFee)
    \/ \E id \in AgentIds, l \in TypeLists, m \in SpecMultipliers, s \in Users :
          setAgentCapabilities(id, l, 40, m, s)
    \/ \E t \in QueryTypes, h \in QueryHashes :
          submitQuery("a1", t, 40, h, "alice")

SpecCaps == Init /\ [][NextCaps]_vars

\* The capability lists when only alice, who created no agent, sets them:
\* agent a1 is registered and verified by its creator bob
Outsider == "alice"

NextCapsOutsider ==
    \/ Tick
    \/ registerAgent("a1", "ipfs://m", "bob", InitialRegistrationFee)
    \/ \E t \in TRAINING_QUALITY..CAPABILITY_VERIFICATION :
          /\ acceptedSubmissions < MaxVerifications
          /\ submitVerificationProof("a1", t, ValidProof, FullInputs, "bob",
                                     InitialVerificationFee)
    \/ \E id \in AgentIds, l \in TypeLists, m \in SpecMultipliers :
          setAgentCapabilities(id, l, 40, m, Outsider)

SpecCapsOutsider == Init /\ [][NextCapsOutsider]_vars

\* The verification registry with the reputation token deployed for it: bob
\* registers and verifies a1, and every account asks the token contract to mint
\* for a1.  The transactions keep coming (weak fairness of the whole step and of
\* the mint requests).
MintRequests ==
    \E s \in Users \cup {Owner} : mintReputationNFT("a1", "bob", 900, "ipfs://m", s)

NextMint ==
    \/ Tick
    \/ registerAgent("a1", "ipfs://m", "bob", InitialRegistrationFee)
    \/ \E t \in CoreTypes :
          /\ acceptedSubmissions < MaxMasterSubmissions
          /\ submitVerificationProof("a1", t, ValidProof, FullInputs, "bob",
                                     InitialVerificationFee)
    \/ MintRequests

SpecMint == Init /\ [][NextMint]_vars /\ WF_vars(NextMint) /\ WF_vars(MintRequests)

\* The reputation token alone: the owner points it at the registry or at the
\* owner's own account, which then mints and updates; holders try to transfer
\* updateReputation calls explored per token
MaxReputationUpdates == 1

\* verificationCount of the token of an agent, 0 without a token
verificationCountOf(agentId) ==
    IF agentToTokenId[agentId] = 0 THEN 0
    ELSE reputationData[agentToTokenId[agentId]].verificationCount

NextNFT ==
    \/ Tick
    \/ \E c \in {Core, Owner}, s \in {Owner, "alice"} : setVerificationContract(c, s)
    \/ \E id \in AgentIds, c \in Users \cup {ZeroAddress}, s \in {Owner, "alice"} :
          /\ tokenIdCounter <= MaxTokens
          /\ mintReputationNFT(id, c, 900, "ipfs://m", s)
    \/ \E id \in AgentIds, s \in {Owner, "alice"} :
          /\ verificationCountOf(id) <= MaxReputationUpdates
          /\ updateReputation(id, 500, s)
    \/ \E from \in Users, to \in Users \cup {ZeroAddress}, t \in 1..MaxTokens, s \in Users :
          transferFrom(from, to, t, s)

SpecNFT == Init /\ [][NextNFT]_vars

\* Governance votes: alice (150 tokens) and bob (100 tokens) create proposals
\* and vote, tokens move between the voters, the owner shortens the voting
\* period to 0 and lowers the quorum
MaxProposals == 1
ShortVotingPeriod == 0
LowQuorum == 100
MovedTokens == 100
GovCallers == Users \cup {Owner}

NextVoting ==
    \/ Tick
    \/ \E s \in GovCallers :
          /\ nextProposalId <= MaxProposals
          /\ createProposal("d", s)
    \/ \E id \in 1..(MaxProposals + 1), c \in 0..3, s \in GovCallers : vote(id, c, s)
    \/ \E id \in 1..(MaxProposals + 1), s \in GovCallers : executeProposal(id, s)
    \/ \E s \in {Owner, "alice"} :
          \/ setVotingPeriod(ShortVotingPeriod, s)
          \/ setMinimumQuorum(LowQuorum, s)
    \/ governanceTransfer("bob", MovedTokens, "alice")

SpecVoting == Init /\ [][NextVoting]_vars

\* Governance disputes: alice and bob file disputes against a1, the owner (and
\* alice) resolve ids 1..3 either way, and the owner halves the deposit
MaxDisputes == 2
LowDisputeDeposit == 50

NextDisputes ==
    \/ Tick
    \/ \E s \in GovCallers :
          /\ nextDisputeId <= MaxDisputes
          /\ createDispute("a1", "d", s)
    \/ \E id \in 1..(MaxDisputes + 1), u \in BOOLEAN, s \in {Owner, "alice"} :
          resolveDispute(id, u, s)
    \/ \E s \in {Owner, "alice"} : setDisputeDeposit(LowDisputeDeposit, s)

SpecDisputes == Init /\ [][NextDisputes]_vars

\* The agent/inheritance registry: r1 is registered by alice, r2 by bob, and
\* both callers try every update, inheritance and deactivation, all within one
\* block
RegistryUpdates == {<<>>, <<"p2", "p1">>}

NextRegistry ==
    \/ \E m \in RegistryMetadata :
          \/ AgentRegistry_registerAgent("r1", m, <<"p1">>, "alice")
          \/ AgentRegistry_registerAgent("r2", m, <<>>, "bob")
          \/ AgentRegistry_registerAgent(EmptyId, m, <<"p1">>, "bob")
    \/ \E id \in RegistryIds, l \in RegistryUpdates, s \in Users :
          updateProofs(id, l, s)
    \/ \E f \in RegistryIds, t \in RegistryIds, h \in RegistryProofHashes, s \in Users :
          /\ totalInheritances < MaxInheritances
          /\ inheritProof(f, t, h, s)
    \/ \E id \in RegistryIds, s \in Users : deactivateAgent(id, s)

SpecRegistry == Init /\ [][NextRegistry]_vars

\* The circuits, one instance at a time: evidence vectors of 1..MaxSamples
\* entries (0..MaxSamples flags for the running product)
MaxSamples == 3

VectorsOver(S, lo, hi) == UNION {[1..n -> S] : n \in lo..hi}
ConstantVector(n, v) == [i \in 1..n |-> v]

QualityInputs ==
    {[quality_scores |-> q, training_seed |-> 11, model_weights_hash |-> 12,
      agent_id |-> 1, min_quality_threshold |-> t, training_commitment_hash |-> 13,
      creator_address |-> 14] :
        q \in VectorsOver({700, 900, 950}, 1, MaxSamples), t \in {800, 900}}

\* harmful-content flag vectors of length n with 0, 1 and (for n > 1) 2 flags set
FlagVectors(n) ==
    {[i \in 1..n |-> IF i <= c THEN 1 ELSE 0] : c \in 0..2}

EthicsInputs ==
    UNION {{[bias_test_results |-> b, fairness_scores |-> f, harmful_content_flags |-> h,
             ethics_training_data_hash |-> 21, max_bias_threshold |-> 200,
             min_fairness_score |-> 700, max_harmful_rate |-> m,
             ethics_commitment_hash |-> 22, agent_id |-> 1] :
               b \in VectorsOver({150, 200, 250}, n, n) \cup {<<100, 150, 120>>},
               f \in VectorsOver({650, 700}, n, n),
               h \in FlagVectors(n),
               m \in {0, 1}} : n \in 1..MaxSamples}

ComplianceInputs ==
    UNION {{[privacy_protection_scores |-> pv, data_handling_scores |-> d,
             encryption_standards |-> e, data_category_permissions |-> <<1, 0, 1>>,
             min_privacy_score |-> 850, min_data_handling_score |-> 800,
             agent_id |-> 1, compliance_commitment_hash |-> 31] :
               pv \in VectorsOver({800, 900}, n, n)
                      \cup {[i \in 1..n |-> IF i = 1 THEN 950 ELSE 900]},
               d \in VectorsOver({700, 900}, n, n),
               e \in VectorsOver({700, 900}, n, n)} : n \in 1..MaxSamples}

IncentiveInputs ==
    UNION {{[user_benefit_scores |-> u, societal_impact_scores |-> so,
             economic_efficiency_scores |-> ConstantVector(n, 900),
             long_term_sustainability_scores |-> ConstantVector(n, 900),
             stakeholder_satisfaction |-> <<900>>,
             misalignment_incidents |-> ConstantVector(n, 0),
             agent_id |-> 1, min_user_benefit_threshold |-> 800,
             min_societal_impact_threshold |-> 800, max_misalignment_rate |-> 0,
             alignment_commitment_hash |-> 41] :
               u \in VectorsOver({600, 1000}, n, n),
               so \in VectorsOver({700, 900}, n, n)} : n \in 1..MaxSamples}

AdaptationInputs ==
    UNION {{[adaptation_success_rates |-> a, principle_preservation_scores |-> <<900>>,
             learning_efficiency_scores |-> l,
             knowledge_transfer_scores |-> ConstantVector(n, 900),
             stability_during_adaptation |-> ConstantVector(n, 900),
             agent_id |-> 1, min_adaptation_success_rate |-> 800,
             min_principle_preservation_score |-> 800, min_learning_efficiency |-> 800,
             adaptation_commitment_hash |-> 51] :
               a \in VectorsOver({600, 1000}, n, n),
               l \in VectorsOver({700, 900}, n, n)} : n \in 1..MaxSamples}

AverageInputs == {[values |-> v] : v \in VectorsOver({0, 700, 850, 1000}, 1, MaxSamples)}
ProductInputs == {[flags |-> f] : f \in VectorsOver({0, 1}, 0, MaxSamples)}
SelectorInputs ==
    {[values |-> v, index |-> i] :
        v \in VectorsOver({0, 5, 7}, 1, MaxSamples), i \in 0..(MaxSamples + 1)}

OrchestratorInputs ==
    {[quality_scores |-> q, training_seed |-> 11, model_weights_hash |-> 12,
      bias_test_results |-> b, fairness_scores |-> f,
      harmful_content_flags |-> <<0, 1>>, ethics_training_data_hash |-> 21,
      privacy_protection_scores |-> pv, data_handling_scores |-> d,
      encryption_standards |-> e,
      agent_id |-> 1, creator_address |-> 14, min_quality_threshold |-> 800,
      max_bias_threshold |-> 200, min_privacy_score |-> 850,
      training_commitment_hash |-> 13, ethics_commitment_hash |-> 22,
      compliance_commitment_hash |-> 31] :
        q \in {<<900, 900>>, <<900, 700>>},
        b \in {<<100, 150>>, <<100, 300>>},
        f \in {<<700, 800>>, <<600, 800>>},
        pv \in {<<900, 900>>, <<900, 800>>},
        d \in {<<800, 900>>, <<700, 900>>},
        e \in {<<800, 800>>, <<700, 900>>}}

\* component main = ZKAgentVerificationOrchestrator(100, 50, 30, 25)
MainTrainingSamples == 100
MainEthicsTests == 50
MainComplianceTests == 30

\* the orchestrator at its instantiated size, every score passing its
\* threshold, with 0, 2, 3 and all 50 harmful-content flags set
MainOrchestratorInputs ==
    {[quality_scores |-> ConstantVector(MainTrainingSamples, 900),
      training_seed |-> 11, model_weights_hash |-> 12,
      bias_test_results |-> ConstantVector(MainEthicsTests, 100),
      fairness_scores |-> ConstantVector(MainEthicsTests, 800),
      harmful_content_flags |-> [i \in 1..MainEthicsTests |-> IF i <= c THEN 1 ELSE 0],
      ethics_training_data_hash |-> 21,
      privacy_protection_scores |-> ConstantVector(MainComplianceTests, 900),
      data_handling_scores |-> ConstantVector(MainComplianceTests, 900),
      encryption_standards |-> ConstantVector(MainComplianceTests, 900),
      agent_id |-> 1, creator_address |-> 14, min_quality_threshold |-> 800,
      max_bias_threshold |-> 200, min_privacy_score |-> 850,
      training_commitment_hash |-> 13, ethics_commitment_hash |-> 22,
      compliance_commitment_hash |-> 31] : c \in {0, 2, 3, MainEthicsTests}}

\* complexities around the steps of the multiplier and payments around the
\* three tolerance bands, with the largest 16-bit payment
PaymentInputs ==
    {[complexity |-> c, payment |-> pay] :
        c \in {0, 1, 250, 499, 500, 501, 999, 1000}, pay \in (0..40) \cup {65535}}

\* metadata vectors with one entry set, and all entries at 0 and at 1000
MetadataInputs ==
    {[metadata |-> [i \in 1..8 |-> IF i = k THEN v ELSE 0]] : k \in 1..8, v \in {0, 39, 1000}}
    \cup {[metadata |-> [i \in 1..8 |-> 1000]]}

\* histories of 1..MaxSamples interactions: best and worst outcomes, uniform
\* feedback, completion, quality and error rates at the ends of the scale, up
\* to two bias incidents, and minimum interaction counts at, just above and far
\* above the number of interactions
ReputationInputs ==
    UNION {{[interaction_outcomes |-> o, user_feedback_scores |-> ConstantVector(n, f),
             task_completion_rates |-> ConstantVector(n, c),
             response_quality_scores |-> ConstantVector(n, q),
             bias_incident_flags |-> h, error_rates |-> ConstantVector(n, e),
             agent_id |-> 1, evaluation_period_start |-> 61,
             evaluation_period_end |-> 62, minimum_interactions |-> m] :
               o \in VectorsOver({0, 1000}, n, n), f \in {0, 1000}, c \in {0, 1000},
               q \in {0, 700}, h \in FlagVectors(n), e \in {0, 1000},
               m \in {n, n + 1, 2000}} : n \in 1..MaxSamples}

\* the scale of the scores and thresholds
MaxScore == 1000

\* operands of a threshold comparison: every score of the scale against the
\* threshold equal to it, one below and one above
ComparatorInputs ==
    UNION {{[a |-> score, b |-> threshold] :
               threshold \in {score - 1, score, score + 1} \cap (0..MaxScore)} :
                  score \in 0..MaxScore}

\* every vector of 1..8 permission flags
PermissionInputs ==
    {[permissions |-> p] : p \in VectorsOver({0, 1}, 1, OrchestratorDataCategories)}

CircuitInstances ==
    {Instance("TrainingQualityVerifier", in) : in \in QualityInputs}
    \cup {Instance("EthicsComplianceVerifier", in) : in \in EthicsInputs}
    \cup {Instance("ComplianceVerifier", in) : in \in ComplianceInputs}
    \cup {Instance("IncentiveAlignmentVerifier", in) : in \in IncentiveInputs}
    \cup {Instance("DynamicAdaptationVerifier", in) : in \in AdaptationInputs}
    \cup {Instance("AverageCalculator", in) : in \in AverageInputs}
    \cup {Instance("runningProduct", in) : in \in ProductInputs}
    \cup {Instance("IndexSelector", in) : in \in SelectorInputs}
    \cup {Instance("QueryComplexityCalculator", in) : in \in MetadataInputs}
    \cup {Instance("PaymentValidityChecker", in) : in \in PaymentInputs}
    \cup {Instance("ReputationScorer", in) : in \in ReputationInputs}
    \cup {Instance("DataTypeEncoder", in) : in \in PermissionInputs}
    \cup {Instance("GreaterEqThan", in) : in \in ComparatorInputs}
    \cup {Instance("LessEqThan", in) : in \in ComparatorInputs}
    \cup {Instance("ZKAgentVerificationOrchestrator", in) : in \in OrchestratorInputs}
    \cup {Instance("ZKAgentVerificationOrchestrator", in) : in \in MainOrchestratorInputs}

InitCircuits == LedgerInit /\ \E c \in CircuitInstances : runs = <<c>>

NextCircuits == \E k \in DOMAIN runs : Prove(k)

SpecCircuits == InitCircuits /\ [][NextCircuits]_vars

\* two runs of one verifier for one agent; the evidence and the externally
\* supplied commitment hash vary between the runs
Commitments == {61, 62}

HashQualityInputs ==
    {[quality_scores |-> q, training_seed |-> 11, model_weights_hash |-> 12,
      agent_id |-> 1, min_quality_threshold |-> 800, training_commitment_hash |-> c,
      creator_address |-> 14] :
        q \in {<<900, 900>>, <<1000, 800>>, <<1000, 600>>}, c \in Commitments}

HashEthicsInputs ==
    {[bias_test_results |-> b, fairness_scores |-> f, harmful_content_flags |-> <<0, 0>>,
      ethics_training_data_hash |-> 21, max_bias_threshold |-> 200,
      min_fairness_score |-> 700, max_harmful_rate |-> 0,
      ethics_commitment_hash |-> c, agent_id |-> 1] :
        b \in {<<100, 150>>, <<100, 250>>}, f \in {<<700, 800>>, <<650, 800>>},
        c \in Commitments}

HashComplianceInputs ==
    {[privacy_protection_scores |-> pv, data_handling_scores |-> <<900, 900>>,
      encryption_standards |-> <<900, 900>>, data_category_permissions |-> <<1, 0, 1>>,
      min_privacy_score |-> 850, min_data_handling_score |-> 800,
      agent_id |-> 1, compliance_commitment_hash |-> c] :
        pv \in {<<900, 900>>, <<1000, 800>>}, c \in Commitments}

HashIncentiveInputs ==
    {[user_benefit_scores |-> u, societal_impact_scores |-> <<900, 900>>,
      economic_efficiency_scores |-> <<900, 900>>,
      long_term_sustainability_scores |-> <<900, 900>>,
      stakeholder_satisfaction |-> <<900>>,
      misalignment_incidents |-> m,
      agent_id |-> 1, min_user_benefit_threshold |-> 800,
      min_societal_impact_threshold |-> 800, max_misalignment_rate |-> 0,
      alignment_commitment_hash |-> c] :
        u \in {<<900, 900>>, <<700, 700>>}, m \in {<<0, 0>>, <<0, 1>>},
        c \in Commitments}

HashAdaptationInputs ==
    {[adaptation_success_rates |-> a, principle_preservation_scores |-> <<900>>,
      learning_efficiency_scores |-> <<900, 900>>,
      knowledge_transfer_scores |-> t,
      stability_during_adaptation |-> <<900, 900>>,
      agent_id |-> 1, min_adaptation_success_rate |-> 800,
      min_principle_preservation_score |-> 800, min_learning_efficiency |-> 800,
      adaptation_commitment_hash |-> c] :
        a \in {<<900, 900>>, <<700, 700>>}, t \in {<<900, 900>>, <<700, 700>>},
        c \in Commitments}

HashCapabilityInputs ==
    {[capability_scores |-> <<900, 0>>, query_type_support |-> <<1, 0>>,
      model_architecture_hash |-> 71, training_domain_coverage |-> <<900, 0>>,
      required_query_type |-> r, min_capability_score |-> m,
      min_training_coverage |-> 0, agent_id |-> 1] :
        r \in 0..2, m \in {0, 800}}

VerifierInputs(template) ==
    CASE template = "TrainingQualityVerifier" -> HashQualityInputs
      [] template = "EthicsComplianceVerifier" -> HashEthicsInputs
      [] template = "ComplianceVerifier" -> HashComplianceInputs
      [] template = "IncentiveAlignmentVerifier" -> HashIncentiveInputs
      [] template = "DynamicAdaptationVerifier" -> HashAdaptationInputs
      [] template = "CapabilityVerifier" -> HashCapabilityInputs

Verifiers ==
    {"TrainingQualityVerifier", "EthicsComplianceVerifier", "ComplianceVerifier",
     "IncentiveAlignmentVerifier", "DynamicAdaptationVerifier", "CapabilityVerifier"}

InitProofHashes ==
    /\ LedgerInit
    /\ \E template \in Verifiers : \E in1, in2 \in VerifierInputs(template) :
          runs = <<Instance(template, in1), Instance(template, in2)>>

NextProofHashes == \E k \in DOMAIN runs : Prove(k)

SpecProofHashes == InitProofHashes /\ [][NextProofHashes]_vars

----------------------------------------------------------------------------
(* Claims about ZKQueryProcessor settlement and escrow *)

\* C1: a Query Request is settled at most once: once its processed flag is
\* true it is true in every later state, so no second processing proof for the
\* same id is accepted.
C1_ProcessedNeverResets ==
    [][\A q \in DOMAIN queries :
          queries[q].processed => queries'[q].processed]_vars

\* the payment escrowed for the Query Requests that are not settled yet
pendingEscrow ==
    SumOver([q \in DOMAIN queries |->
                IF queries[q].processed THEN 0 ELSE queries[q].paymentAmount],
            DOMAIN queries)

\* C2: the processor's payment-token balance covers the payments of all
\* existing unprocessed Query Requests in every reachable state.
C2_EscrowHeld == tokenBalance[QP] >= pendingEscrow

----------------------------------------------------------------------------
(* Claims about ZKAgentVerificationCore *)

agentRecordKept(agentId) ==
    /\ agents'[agentId].creator = agents[agentId].creator
    /\ agents'[agentId].metadataURI = agents[agentId].metadataURI
    /\ agents'[agentId].registrationTime = agents[agentId].registrationTime
    /\ agents'[agentId].isActive = agents[agentId].isActive

\* C3: registerAgent with msg.value below registrationFee, or for an id that is
\* already registered (by any caller, with any fee), is rejected and leaves
\* agents, registeredAgents and totalRegisteredAgents unchanged; the creator
\* and record of a registered agent are never changed by any operation.
C3_RegisterAgentRejected ==
    [][/\ last'.op = "registerAgent" =>
            IF last'.ok
            THEN \A id \in AgentIds, uri \in MetadataURIs, s \in Users, v \in CoreValues :
                    registerAgent(id, uri, s, v)
                    => ~(v < registrationFee \/ agents[id].creator # ZeroAddress)
            ELSE UNCHANGED <<agents, registeredAgents, totalRegisteredAgents>>
       /\ \A id \in AgentIds :
            agents[id].creator # ZeroAddress => agentRecordKept(id)]_vars

\* a second registerAgent for a registered id has been rejected
C3_Witness ==
    /\ last = Receipt("registerAgent", FALSE, "Agent already registered")
    /\ agents["a1"].creator \in Users
    /\ totalRegisteredAgents = 1

\* C4: submitVerificationProof for an unregistered agent, from a caller who is
\* not the agent's creator, with msg.value below verificationFee, or with a
\* proof the proof check refuses, is rejected and changes nothing: no category
\* boolean, no proof hash, no counter, no timestamp.
C4_SubmitVerificationProofRejected ==
    [][last'.op = "submitVerificationProof" =>
          IF last'.ok
          THEN \A c \in CoreSubmissions :
                  submitVerificationProof(c[1], c[2], c[3], c[4], c[5], c[6])
                  => ~(\/ agents[c[1]].creator = ZeroAddress
                       \/ agents[c[1]].creator # c[5]
                       \/ c[6] < verificationFee
                       \/ ~verifyProof(c[3], c[4]))
          ELSE UNCHANGED <<agents, verificationResults, verificationSubmitted>>]_vars

\* a submission from a caller who is not the creator has been rejected
C4_Witness ==
    /\ last = Receipt("submitVerificationProof", FALSE, "Not agent creator")
    /\ agents["a1"].creator \in Users

RequiredCategories ==
    {TRAINING_QUALITY, ETHICS_COMPLIANCE, REGULATORY_COMPLIANCE, CAPABILITY_VERIFICATION}

----------------------------------------------------------------------------
(* Claims about ZKQueryProcessor operations *)

\* basePrice + (estimatedComplexity * complexityMultiplier) / 1000, with the
\* complexity estimate submitQuery passes
expectedPayment(agentId) ==
    agentCapabilities[agentId].basePrice
    + (MediumComplexity * agentCapabilities[agentId].complexityMultiplier)
         \div ComplexityDivisor

submitQueryAccepted(agentId, queryType, paymentAmount, queryHash, sender) ==
    /\ last'.ok
    /\ tokenBalance' = [tokenBalance EXCEPT ![sender] = @ - paymentAmount,
                                            ![QP] = @ + paymentAmount]
    /\ LET queryId == QueryIdOf(agentId, sender, queryType, queryHash, now) IN
       /\ queryId \in DOMAIN queries'
       /\ queries'[queryId].agentId = agentId
       /\ queries'[queryId].requester = sender
       /\ queries'[queryId].queryType = queryType
       /\ queries'[queryId].paymentAmount = paymentAmount
       /\ ~queries'[queryId].processed

submitQueryRefused ==
    /\ ~last'.ok
    /\ UNCHANGED <<queries, tokenBalance, agentCapabilities>>

C7_ProcessingProofGate ==
    [][last'.op = "submitQueryProcessingProof" =>
          \A q \in SettleIds, pr \in SettleProofs, pi \in SettleInputs :
             submitQueryProcessingProof(q, pr, pi, "bob") =>
                IF \/ queryOf(q).processed
                   \/ queryOf(q).requester = ZeroAddress
                   \/ ~verifyProof(pr, pi)
                   \/ Len(pi) < 2
                THEN /\ ~last'.ok
                     /\ UNCHANGED <<queries, tokenBalance>>
                ELSE last'.ok =>
                     LET creator == agents[queries[q].agentId].creator IN
                     /\ queries'[q].processed
                     /\ queries'[q].responseCommitment = pi[2]
                     /\ creator \in Users
                     /\ tokenBalance'[creator] - tokenBalance[creator]
                          = tokenBalance[QP] - tokenBalance'[QP]
                     /\ \A a \in Accounts \ {creator, QP} :
                           tokenBalance'[a] = tokenBalance[a]]_vars

\* a second processing proof for a processed query has been rejected
C7_Witness ==
    /\ last = Receipt("submitQueryProcessingProof", FALSE, "Query already processed")
    /\ \E q \in DOMAIN queries : queries[q].processed
    /\ tokenBalance["bob"] > 0

\* the queries the step settles, and what the step pays to their agent's creator
settledBy(q) ==
    /\ q \in DOMAIN queries
    /\ ~queries[q].processed
    /\ queries'[q].processed
releasedFor(q) ==
    tokenBalance'[agents[queries[q].agentId].creator]
    - tokenBalance[agents[queries[q].agentId].creator]

\* C8 as stated: the creator receives payment - payment * feeBps / 10000 as an
\* exact amount: 97.5 of a payment of 100 at 250 bps, 2.5 staying as fee.
C8_ExactFeeSplit ==
    [][(last'.op = "submitQueryProcessingProof" /\ last'.ok) =>
          \A q \in DOMAIN queries :
             settledBy(q) =>
                /\ FEE_DENOMINATOR * releasedFor(q)
                     = queries[q].paymentAmount * (FEE_DENOMINATOR - platformFeePercent)
                /\ (queries[q].paymentAmount = 100 /\ platformFeePercent = 250)
                     => (2 * releasedFor(q) = 195
                         /\ 2 * (queries[q].paymentAmount - releasedFor(q)) = 5)]_vars

\* C8 (amended): the creator receives payment - platformFee, where the
\* platform fee is the integer quotient of payment * feeBps by 10000; a
\* payment of 100 at 250 bps releases 98 and leaves 2 in the contract.
C8_FlooredFeeSplit ==
    [][(last'.op = "submitQueryProcessingProof" /\ last'.ok) =>
          \A q \in DOMAIN queries :
             settledBy(q) =>
                /\ releasedFor(q) = queries[q].paymentAmount
                     - (queries[q].paymentAmount * platformFeePercent) \div FEE_DENOMINATOR
                /\ tokenBalance'[QP] = tokenBalance[QP] - releasedFor(q)
                /\ (queries[q].paymentAmount = 100 /\ platformFeePercent = 250)
                     => (releasedFor(q) = 98
                         /\ queries[q].paymentAmount - releasedFor(q) = 2)]_vars

\* a query paid 100 has been settled at 250 bps
C8_Witness ==
    /\ last = Receipt("submitQueryProcessingProof", TRUE, NoError)
    /\ platformFeePercent = 250
    /\ \E q \in DOMAIN queries :
          queries[q].processed /\ queries[q].paymentAmount = 100
    /\ tokenBalance["bob"] = 98
    /\ tokenBalance[QP] = 2

\* C9: setAgentCapabilities succeeds only for a fully verified agent, and
\* after a successful call a query type is supported exactly when it is in
\* the list supplied.
C9_CapabilitiesReplacedWholesale ==
    [][(last'.op = "setAgentCapabilities" /\ last'.ok) =>
          \A id \in AgentIds, l \in TypeLists, m \in SpecMultipliers, s \in Users :
             setAgentCapabilities(id, l, 40, m, s) =>
                /\ isAgentFullyVerified(id)
                /\ \A t \in QueryTypes :
                      isQueryTypeSupported(id, t)' <=> t \in Range(l)]_vars

----------------------------------------------------------------------------
(* Claims about the flags of the ledger records *)

categoryFlagsKept(agentId) ==
    /\ verificationResults[agentId].qualityVerified
          => verificationResults'[agentId].qualityVerified
    /\ verificationResults[agentId].ethicsVerified
          => verificationResults'[agentId].ethicsVerified
    /\ verificationResults[agentId].complianceVerified
          => verificationResults'[agentId].complianceVerified
    /\ verificationResults[agentId].capabilityVerified
          => verificationResults'[agentId].capabilityVerified

----------------------------------------------------------------------------
(* Claims about AgentRegistry *)

inheritProofAllowed(fromAgent, toAgent, proofHash, sender) ==
    /\ registryAgents[toAgent].owner = sender
    /\ registryAgents[fromAgent].isActive
    /\ registryAgents[toAgent].isActive
    /\ proofHash \in Range(registryAgents[fromAgent].proofHashes)

inheritProofApplied(fromAgent, toAgent, proofHash) ==
    /\ proofInheritances' = [proofInheritances EXCEPT ![toAgent] =
          Append(@, [fromAgent |-> fromAgent, proofHash |-> proofHash,
                     inheritanceTime |-> now])]
    /\ \A id \in RegistryIds, a \in Users \cup {ZeroAddress} :
          proofRoyalties'[id][a] =
             IF id = fromAgent /\ a = registryAgents[fromAgent].owner
             THEN proofRoyalties[id][a] + 1
             ELSE proofRoyalties[id][a]

\* C11: inheritProof succeeds only if the caller owns toAgent, both agents are
\* active and proofHash is among fromAgent's recorded proof hashes; a success
\* appends exactly the edge (fromAgent, proofHash, time) to toAgent's list and
\* adds one to the royalty counter of fromAgent's owner, and nothing else; a
\* failed precondition leaves every inheritance list and royalty counter as it
\* was.
C11_InheritProofGate ==
    [][last'.op = "inheritProof" =>
          \A f \in RegistryIds, t \in RegistryIds, h \in RegistryProofHashes, s \in Users :
             inheritProof(f, t, h, s) =>
                IF inheritProofAllowed(f, t, h, s)
                THEN last'.ok /\ inheritProofApplied(f, t, h)
                ELSE ~last'.ok /\ UNCHANGED <<proofInheritances, proofRoyalties>>]_vars

\* bob's agent r2 has inherited a proof of alice's agent r1
C11_Witness ==
    /\ last = Receipt("inheritProof", TRUE, NoError)
    /\ Len(proofInheritances["r2"]) = 1
    /\ proofInheritances["r2"][1].fromAgent = "r1"
    /\ proofRoyalties["r1"]["alice"] = 1

\* C12: the inheritance list of every agent only grows at its end: each step
\* keeps the list it found as a prefix of the list it leaves.
C12_InheritancesAppendOnly ==
    [][\A id \in RegistryIds :
          /\ Len(proofInheritances[id]) <= Len(proofInheritances'[id])
          /\ SubSeq(proofInheritances'[id], 1, Len(proofInheritances[id]))
               = proofInheritances[id]]_vars

\* r2 holds two edges, and the source agent of the first has since been
\* deactivated
C12_Witness ==
    /\ Len(proofInheritances["r2"]) = 2
    /\ proofInheritances["r2"][1].fromAgent = "r1"
    /\ ~registryAgents["r1"].isActive
    /\ last = Receipt("deactivateAgent", TRUE, NoError)

----------------------------------------------------------------------------
(* Claims about the circuits *)

isInstance(k, template) == k \in DOMAIN runs /\ runs[k].template = template
Bit == {0, 1}
allAtLeast(values, threshold) == \A i \in DOMAIN values : values[i] >= threshold
allAtMost(values, threshold) == \A i \in DOMAIN values : values[i] <= threshold

\* C13: the orchestrator's agent_fully_verified is 1 exactly when its quality,
\* ethics and compliance results are all 1, each of them being 0 or 1; so with
\* any one of the three at 0 and the other two at 1 it is 0.
C13_OrchestratorAnd ==
    \A k \in DOMAIN runs :
       (isInstance(k, "ZKAgentVerificationOrchestrator") /\ tried(k)) =>
          LET out == runs[k].out IN
          /\ proved(k)
          /\ out.quality_verification_result \in Bit
          /\ out.ethics_verification_result \in Bit
          /\ out.compliance_verification_result \in Bit
          /\ out.agent_fully_verified \in Bit
          /\ out.agent_fully_verified = 1 <=>
                /\ out.quality_verification_result = 1
                /\ out.ethics_verification_result = 1
                /\ out.compliance_verification_result = 1
          /\ out.quality_verification_result = 1 <=>
                allAtLeast(runs[k].in.quality_scores, runs[k].in.min_quality_threshold)

\* quality and ethics pass, compliance alone fails: not fully verified
C13_Witness ==
    /\ isInstance(1, "ZKAgentVerificationOrchestrator") /\ proved(1)
    /\ runs[1].out.quality_verification_result = 1
    /\ runs[1].out.ethics_verification_result = 1
    /\ runs[1].out.compliance_verification_result = 0
    /\ runs[1].out.agent_fully_verified = 0

\* every score and the average of the scores meet the threshold
qualityMet(in) ==
    /\ allAtLeast(in.quality_scores, in.min_quality_threshold)
    /\ SeqSum(in.quality_scores) >= in.min_quality_threshold * Len(in.quality_scores)

\* C14 as stated: TrainingQualityVerifier outputs quality_verified = 1 exactly
\* when every score and the average meet the threshold; [900, 950, 700] with
\* threshold 800 gives 0.
C14_QualityVerifiedExactly ==
    \A k \in DOMAIN runs :
       (isInstance(k, "TrainingQualityVerifier") /\ tried(k)) =>
          /\ (proved(k) /\ runs[k].out.quality_verified = 1) <=> qualityMet(runs[k].in)
          /\ (runs[k].in.quality_scores = <<900, 950, 700>>
                 /\ runs[k].in.min_quality_threshold = 800)
               => (proved(k) /\ runs[k].out.quality_verified = 0)

\* C14 (amended): for scores whose sum is a multiple of the number of samples
\* TrainingQualityVerifier outputs quality_verified = 1 exactly when every
\* score and the average meet the threshold, and 0 otherwise; for any other
\* scores the average constraint fails and nothing is output; [900, 950, 700]
\* with threshold 800 gives 0 with average 850.
C14_QualityVerifiedWhenAveraged ==
    \A k \in DOMAIN runs :
       (isInstance(k, "TrainingQualityVerifier") /\ tried(k)) =>
          LET in == runs[k].in IN
          /\ proved(k) <=> SeqSum(in.quality_scores) % Len(in.quality_scores) = 0
          /\ proved(k) =>
                /\ runs[k].out.quality_verified \in Bit
                /\ runs[k].out.quality_verified = 1 <=> qualityMet(in)
          /\ (in.quality_scores = <<900, 950, 700>> /\ in.min_quality_threshold = 800)
               => /\ proved(k)
                  /\ runs[k].out.quality_verified = 0
                  /\ runs[k].out.average_quality = 850

\* the example: one sample below the threshold, the average above it
C14_Witness ==
    /\ isInstance(1, "TrainingQualityVerifier") /\ proved(1)
    /\ runs[1].in.quality_scores = <<900, 950, 700>>
    /\ runs[1].in.min_quality_threshold = 800
    /\ runs[1].out.average_quality = 850
    /\ runs[1].out.quality_verified = 0

\* C15: EthicsComplianceVerifier outputs ethics_verified = 1 exactly when every
\* bias score is at most max_bias_threshold, every fairness score is at least
\* min_fairness_score and the number of set harmful-content flags is at most
\* max_harmful_rate; bias scores [100, 150, 120] under 200 with no harmful flag
\* and fairness scores of 700 under a minimum of 700 give 1.
C15_EthicsVerifiedExactly ==
    \A k \in DOMAIN runs :
       (isInstance(k, "EthicsComplianceVerifier") /\ tried(k)) =>
          LET in == runs[k].in IN
          /\ proved(k)
          /\ runs[k].out.ethics_verified \in Bit
          /\ runs[k].out.ethics_verified = 1 <=>
                /\ allAtMost(in.bias_test_results, in.max_bias_threshold)
                /\ allAtLeast(in.fairness_scores, in.min_fairness_score)
                /\ Cardinality({i \in DOMAIN in.harmful_content_flags :
                                   in.harmful_content_flags[i] = 1})
                      <= in.max_harmful_rate

\* the example
C15_Witness ==
    /\ isInstance(1, "EthicsComplianceVerifier") /\ proved(1)
    /\ runs[1].in.bias_test_results = <<100, 150, 120>>
    /\ runs[1].in.max_bias_threshold = 200
    /\ runs[1].in.fairness_scores = <<700, 700, 700>>
    /\ runs[1].in.min_fairness_score = 700
    /\ runs[1].in.harmful_content_flags = <<0, 0, 0>>
    /\ runs[1].out.ethics_verified = 1

\* C16 as stated: for every vector of N scores AverageCalculator produces an
\* average with average * N = sum(values), the integer quotient sum / N.
C16_AverageForAllVectors ==
    \A k \in DOMAIN runs :
       (isInstance(k, "AverageCalculator") /\ tried(k)) =>
          LET values == runs[k].in.values IN
          /\ proved(k)
          /\ runs[k].out.average * Len(values) = SeqSum(values)
          /\ runs[k].out.average = SeqSum(values) \div Len(values)

\* C16 (amended): AverageCalculator produces an average exactly for the vectors
\* whose sum is a multiple of N; the average it produces satisfies
\* average * N = sum(values) and is the integer quotient sum / N; for every
\* other vector the constraint fails and no average is produced.
C16_AverageOfDivisibleSums ==
    \A k \in DOMAIN runs :
       (isInstance(k, "AverageCalculator") /\ tried(k)) =>
          LET values == runs[k].in.values IN
          /\ proved(k) <=> SeqSum(values) % Len(values) = 0
          /\ proved(k) =>
                /\ runs[k].out.average * Len(values) = SeqSum(values)
                /\ runs[k].out.average = SeqSum(values) \div Len(values)

\* the average 850 of three scores has been produced
C16_Witness ==
    /\ isInstance(1, "AverageCalculator") /\ proved(1)
    /\ runs[1].in.values = <<700, 850, 1000>>
    /\ runs[1].out.average = 850

\* C17: the running product of N flags, each 0 or 1, is 1 if every flag is 1
\* and 0 if some flag is 0; for N = 0 it is 1.
C17_RunningProductIsAnd ==
    \A k \in DOMAIN runs :
       (isInstance(k, "runningProduct") /\ tried(k)) =>
          LET flags == runs[k].in.flags IN
          /\ proved(k)
          /\ (\A i \in DOMAIN flags : flags[i] = 1) => runs[k].out.out = 1
          /\ (\E i \in DOMAIN flags : flags[i] = 0) => runs[k].out.out = 0
          /\ flags = <<>> => runs[k].out.out = 1

\* the product of no flags is 1
C17_Witness ==
    /\ isInstance(1, "runningProduct") /\ proved(1)
    /\ runs[1].in.flags = <<>>
    /\ runs[1].out.out = 1

\* C18: IndexSelector returns values[index] for 0 <= index < N and 0 for any
\* other index.
C18_IndexSelectorSelects ==
    \A k \in DOMAIN runs :
       (isInstance(k, "IndexSelector") /\ tried(k)) =>
          LET values == runs[k].in.values
              index == runs[k].in.index
          IN
          /\ proved(k)
          /\ runs[k].out.selected_value =
                IF 0 <= index /\ index < Len(values) THEN values[index + 1] ELSE 0

someBelow(values, threshold) == \E i \in DOMAIN values : values[i] < threshold
someAbove(values, threshold) == \E i \in DOMAIN values : values[i] > threshold

\* C20: in each of the Training-Quality, Ethics, Regulatory-Compliance,
\* Incentive-Alignment and Dynamic-Adaptation verifiers, a single evidence score
\* of a thresholded category that fails its threshold makes the verified flag 0,
\* whatever the other scores and the average are.
C20_ThresholdsPerTest ==
    \A k \in DOMAIN runs :
       proved(k) =>
          LET in == runs[k].in
              out == runs[k].out
          IN
          /\ (isInstance(k, "TrainingQualityVerifier")
                 /\ someBelow(in.quality_scores, in.min_quality_threshold))
               => out.quality_verified = 0
          /\ (isInstance(k, "EthicsComplianceVerifier")
                 /\ \/ someAbove(in.bias_test_results, in.max_bias_threshold)
                    \/ someBelow(in.fairness_scores, in.min_fairness_score))
               => out.ethics_verified = 0
          /\ (isInstance(k, "ComplianceVerifier")
                 /\ \/ someBelow(in.privacy_protection_scores, in.min_privacy_score)
                    \/ someBelow(in.data_handling_scores, in.min_data_handling_score)
                    \/ someBelow(in.encryption_standards, MinEncryptionScore))
               => out.compliance_verified = 0
          /\ (isInstance(k, "IncentiveAlignmentVerifier")
                 /\ \/ someBelow(in.user_benefit_scores, in.min_user_benefit_threshold)
                    \/ someBelow(in.societal_impact_scores, in.min_societal_impact_threshold))
               => out.alignment_verified = 0
          /\ (isInstance(k, "DynamicAdaptationVerifier")
                 /\ \/ someBelow(in.adaptation_success_rates, in.min_adaptation_success_rate)
                    \/ someBelow(in.principle_preservation_scores,
                                 in.min_principle_preservation_score)
                    \/ someBelow(in.learning_efficiency_scores, in.min_learning_efficiency))
               => out.adaptation_verified = 0

\* the verified flag, the externally supplied commitment hash and the proof
\* hash of a run; CapabilityVerifier has no commitment input
verifiedFlag(run) ==
    CASE run.template = "TrainingQualityVerifier" -> run.out.quality_verified
      [] run.template = "EthicsComplianceVerifier" -> run.out.ethics_verified
      [] run.template = "ComplianceVerifier" -> run.out.compliance_verified
      [] run.template = "IncentiveAlignmentVerifier" -> run.out.alignment_verified
      [] run.template = "DynamicAdaptationVerifier" -> run.out.adaptation_verified
      [] run.template = "CapabilityVerifier" -> run.out.capability_verified

commitmentHash(run) ==
    CASE run.template = "TrainingQualityVerifier" -> run.in.training_commitment_hash
      [] run.template = "EthicsComplianceVerifier" -> run.in.ethics_commitment_hash
      [] run.template = "ComplianceVerifier" -> run.in.compliance_commitment_hash
      [] run.template = "IncentiveAlignmentVerifier" -> run.in.alignment_commitment_hash
      [] run.template = "DynamicAdaptationVerifier" -> run.in.adaptation_commitment_hash
      [] run.template = "CapabilityVerifier" -> <<>>

proofHash(run) ==
    CASE run.template = "TrainingQualityVerifier" -> run.out.training_proof_hash
      [] run.template = "EthicsComplianceVerifier" -> run.out.ethics_proof_hash
      [] run.template = "ComplianceVerifier" -> run.out.compliance_proof_hash
      [] run.template = "IncentiveAlignmentVerifier" -> run.out.alignment_proof_hash
      [] run.template = "DynamicAdaptationVerifier" -> run.out.adaptation_proof_hash
      [] run.template = "CapabilityVerifier" -> run.out.capability_proof_hash

\* C19: with the hash injective on its ordered inputs, two runs of one domain
\* verifier for the same agent that differ in the verified flag, or in the
\* externally supplied commitment hash, produce different proof hashes.
C19_ProofHashBinds ==
    \A j, k \in DOMAIN runs :
       (/\ proved(j) /\ proved(k)
        /\ runs[j].template \in Verifiers
        /\ runs[j].template = runs[k].template
        /\ runs[j].in.agent_id = runs[k].in.agent_id
        /\ \/ verifiedFlag(runs[j]) # verifiedFlag(runs[k])
           \/ commitmentHash(runs[j]) # commitmentHash(runs[k]))
       => proofHash(runs[j]) # proofHash(runs[k])

----------------------------------------------------------------------------
(* Claims about re-entrancy, pending queries and the master result *)

\* C21: in submitQueryProcessingProof the processed flag is set before the
\* token transfer, and while the transfer is executing a call of
\* submitQueryProcessingProof or submitQuery made by the token is rejected and
\* changes nothing; the processor's balance falls only when the one transfer of
\* the settlement in progress completes, by that settlement's agent payment.
C21_ReentrancySafe ==
    [][/\ frame'.pc = "transfer" =>
            /\ frame'.status = ENTERED
            /\ queries'[frame'.queryId].processed
       /\ (frame.pc = "idle" /\ frame'.pc = "transfer") =>
            /\ ~queryOf(frame'.queryId).processed
            /\ tokenBalance' = tokenBalance
       /\ (frame.pc = "transfer" /\ frame'.pc = "transfer") =>
            /\ ~last'.ok
            /\ last'.op \in {"submitQueryProcessingProof", "submitQuery"}
            /\ last'.err = "ReentrancyGuard: reentrant call"
            /\ UNCHANGED ledgerVars
       /\ (frame.pc = "transfer" /\ tokenBalance' # tokenBalance) =>
            /\ frame'.pc = "idle"
            /\ last' = Receipt("submitQueryProcessingProof", TRUE, NoError)
            /\ tokenBalance' = tokenAfterTransfer(QP, frame.to, frame.amount)
            /\ frame.amount = agentPaymentOf(queries[frame.queryId].paymentAmount)
            /\ queries' = queries]_vars

\* the token has called submitQueryProcessingProof during the payout of a
\* query and the call has been rejected, a second query still pending
C21_Witness ==
    /\ frame.pc = "transfer"
    /\ frame.amount > 0
    /\ queries[frame.queryId].processed
    /\ \E q \in DOMAIN queries : ~queries[q].processed
    /\ last = Receipt("submitQueryProcessingProof", FALSE, "ReentrancyGuard: reentrant call")

\* C22: every operation other than the successful submitQueryProcessingProof
\* for its own id leaves every field of an unprocessed Query Request unchanged
\* (a later submitQuery, setAgentCapabilities and the admin functions included),
\* so a request that gets no processing proof stays pending with its recorded
\* payment amount.
C22_PendingQueryFrame ==
    [][\A q \in DOMAIN queries :
          (/\ ~queries[q].processed
           /\ ~(frame.pc = "idle" /\ frame'.pc = "transfer" /\ frame'.queryId = q))
          => queries'[q] = queries[q]]_vars

\* the four category booleans of a verification result
categoryFlags(result) ==
    <<result.qualityVerified, result.ethicsVerified, result.complianceVerified,
      result.capabilityVerified>>

\* C23: masterProofHash and reputationScore of an agent are zero unless all
\* four category booleans are true, and once stored they are not changed by a
\* later accepted submission that changes none of the four category booleans.
C23_MasterResultStable ==
    [][\A id \in AgentIds :
          LET old == verificationResults[id]
              new == verificationResults'[id]
          IN
          /\ ~allCategoriesVerified(new) =>
                (new.masterProofHash = ZeroHash /\ new.reputationScore = 0)
          /\ (/\ last'.op = "submitVerificationProof" /\ last'.ok
              /\ old.masterProofHash # ZeroHash
              /\ categoryFlags(new) = categoryFlags(old))
             => /\ new.masterProofHash = old.masterProofHash
                /\ new.reputationScore = old.reputationScore]_vars

----------------------------------------------------------------------------
(* Claims about the payment, compliance, capability and reputation circuits *)

\* the payment expected for a complexity, in integer arithmetic
expectedForComplexity(complexity) == 10 * (1 + (2 * complexity) \div 1000)

\* C24: PaymentValidityChecker outputs valid = 1 exactly when
\* (expected * 90) / 100 <= payment <= (expected * 110) / 100 with
\* expected = 10 * (1 + 2 * complexity / 1000) in integer division, for the
\* complexities 0..1000 and 16-bit payments; a payment equal to expected is
\* accepted.  The accepted payments are 9..11 below complexity 500, 18..22 from
\* 500 to 999, and 27..33 at 1000; the complexity computed from metadata on the
\* 0..1000 scale lies in 0..1000.
C24_PaymentToleranceBand ==
    \A k \in DOMAIN runs :
       /\ (isInstance(k, "PaymentValidityChecker") /\ tried(k)) =>
             LET c == runs[k].in.complexity
                 pay == runs[k].in.payment
                 expected == expectedForComplexity(c)
                 accepted == IF c < 500 THEN 9..11 ELSE IF c < 1000 THEN 18..22 ELSE 27..33
             IN
             /\ proved(k)
             /\ runs[k].out.valid \in Bit
             /\ runs[k].out.valid = 1 <=>
                   /\ (expected * 90) \div 100 <= pay
                   /\ pay <= (expected * 110) \div 100
             /\ runs[k].out.valid = 1 <=> pay \in accepted
             /\ pay = expected => runs[k].out.valid = 1
       /\ (isInstance(k, "QueryComplexityCalculator") /\ tried(k)) =>
             /\ proved(k)
             /\ runs[k].out.complexity \in 0..1000

\* a payment at the upper edge of the band for complexity 500 has been accepted
C24_Witness ==
    /\ isInstance(1, "PaymentValidityChecker") /\ proved(1)
    /\ runs[1].in.complexity = 500
    /\ runs[1].in.payment = 22
    /\ runs[1].out.valid = 1

\* every privacy, data-handling and encryption score meets its threshold
complianceMet(in) ==
    /\ allAtLeast(in.privacy_protection_scores, in.min_privacy_score)
    /\ allAtLeast(in.data_handling_scores, in.min_data_handling_score)
    /\ allAtLeast(in.encryption_standards, 800)

divides(n, sum) == sum % n = 0

\* C25 as stated: ComplianceVerifier outputs compliance_verified = 1 exactly
\* when every privacy score is >= min_privacy_score, every data-handling score
\* is >= min_data_handling_score and every encryption score is >= 800;
\* privacy_level and data_handling_level are the averages of their arrays.
C25_ComplianceVerifiedExactly ==
    \A k \in DOMAIN runs :
       (isInstance(k, "ComplianceVerifier") /\ tried(k)) =>
          LET in == runs[k].in
              n == Len(in.privacy_protection_scores)
          IN
          /\ (proved(k) /\ runs[k].out.compliance_verified = 1) <=> complianceMet(in)
          /\ proved(k) =>
                /\ runs[k].out.privacy_level * n = SeqSum(in.privacy_protection_scores)
                /\ runs[k].out.data_handling_level * n = SeqSum(in.data_handling_scores)

\* C25 (amended): for privacy and data-handling scores whose sums are
\* multiples of the number of tests, ComplianceVerifier outputs
\* compliance_verified = 1 exactly when every privacy score is >=
\* min_privacy_score, every data-handling score is >= min_data_handling_score
\* and every encryption score is >= 800, and 0 otherwise; privacy_level and
\* data_handling_level are the averages and do not enter the flag; for other
\* scores an average constraint fails and nothing is output.
C25_ComplianceVerifiedWhenAveraged ==
    \A k \in DOMAIN runs :
       (isInstance(k, "ComplianceVerifier") /\ tried(k)) =>
          LET in == runs[k].in
              n == Len(in.privacy_protection_scores)
          IN
          /\ proved(k) <=> /\ divides(n, SeqSum(in.privacy_protection_scores))
                           /\ divides(n, SeqSum(in.data_handling_scores))
          /\ proved(k) =>
                /\ runs[k].out.compliance_verified \in Bit
                /\ runs[k].out.compliance_verified = 1 <=> complianceMet(in)
                /\ runs[k].out.privacy_level * n = SeqSum(in.privacy_protection_scores)
                /\ runs[k].out.data_handling_level * n = SeqSum(in.data_handling_scores)

\* the privacy average meets the minimum and one privacy score does not: the
\* flag is 0
C25_Witness ==
    /\ isInstance(1, "ComplianceVerifier") /\ proved(1)
    /\ runs[1].in.privacy_protection_scores = <<900, 800>>
    /\ runs[1].in.data_handling_scores = <<900, 900>>
    /\ runs[1].in.encryption_standards = <<900, 900>>
    /\ runs[1].out.privacy_level = 850
    /\ runs[1].out.compliance_verified = 0

\* the element of a signal array at a circuit index (0-based), 0 outside it
atIndex(values, index) ==
    IF 0 <= index /\ index < Len(values) THEN values[index + 1] ELSE 0

\* C26: CapabilityVerifier outputs capability_verified = 1 exactly when, at
\* index required_query_type, the capability score is >= min_capability_score,
\* the training coverage is >= min_training_coverage and the support flag is 1;
\* capability_score and training_coverage are the values at that index, and an
\* out-of-range required_query_type gives capability_verified = 0.
C26_CapabilityOfRequestedType ==
    \A k \in DOMAIN runs :
       (isInstance(k, "CapabilityVerifier") /\ tried(k)) =>
          LET in == runs[k].in
              r == in.required_query_type
              inRange == 0 <= r /\ r < Len(in.query_type_support)
          IN
          /\ proved(k)
          /\ runs[k].out.capability_score = atIndex(in.capability_scores, r)
          /\ runs[k].out.training_coverage = atIndex(in.training_domain_coverage, r)
          /\ runs[k].out.capability_verified = 1 <=>
                /\ inRange
                /\ atIndex(in.capability_scores, r) >= in.min_capability_score
                /\ atIndex(in.training_domain_coverage, r) >= in.min_training_coverage
                /\ atIndex(in.query_type_support, r) = 1
          /\ ~inRange => runs[k].out.capability_verified = 0

inScale(v) == 0 <= v /\ v <= 1000

\* the exact average of a vector whose sum is a multiple of its length
avg(values) == SeqSum(values) \div Len(values)

\* C27: ReputationScorer emits reputation_score = (25*avg(outcomes) +
\* 20*avg(feedback) + 25*avg(completion) + 15*avg(quality) + 10*bias_free_score
\* + 5*(1000 - avg(error_rates))) / 100 with bias_free_score = 1000 -
\* (incident count * 1000) / N, and for inputs in 0..1000 with 0/1 incident
\* flags every emitted score (reputation, reliability, satisfaction, bias_free)
\* is within 0..1000.
C27_ReputationBlend ==
    \A k \in DOMAIN runs :
       (isInstance(k, "ReputationScorer") /\ proved(k)) =>
          LET in == runs[k].in
              out == runs[k].out
              N == Len(in.interaction_outcomes)
          IN
          /\ out.bias_free_score = 1000 - (SeqSum(in.bias_incident_flags) * 1000) \div N
          /\ out.reliability_score = avg(in.task_completion_rates)
          /\ out.user_satisfaction_score = avg(in.user_feedback_scores)
          /\ out.reputation_score =
                (25 * avg(in.interaction_outcomes) + 20 * avg(in.user_feedback_scores)
                   + 25 * avg(in.task_completion_rates)
                   + 15 * avg(in.response_quality_scores)
                   + 10 * out.bias_free_score
                   + 5 * (1000 - avg(in.error_rates))) \div 100
          /\ inScale(out.reputation_score)
          /\ inScale(out.reliability_score)
          /\ inScale(out.user_satisfaction_score)
          /\ inScale(out.bias_free_score)

\* C27 witness: two interactions with outcomes 0 and 1000, full feedback and
\* completion, quality 700, one bias incident and no errors give
\* bias_free_score 500 and reputation_score (12500 + 20000 + 25000 + 10500 +
\* 5000 + 5000) / 100 = 780
C27_Witness ==
    \E k \in DOMAIN runs :
       /\ isInstance(k, "ReputationScorer") /\ proved(k)
       /\ runs[k].in.interaction_outcomes \in {<<0, 1000>>, <<1000, 0>>}
       /\ runs[k].in.bias_incident_flags = <<1, 0>>
       /\ runs[k].out.bias_free_score = 500
       /\ runs[k].out.reputation_score = 780

\* C28: sufficient_data is 1 exactly when the number of historical
\* interactions is >= minimum_interactions, for every minimum_interactions
\* value, and a nonzero reputation_score is emitted only when sufficient_data
\* is 1.
C28_SufficientDataGate ==
    \A k \in DOMAIN runs :
       (isInstance(k, "ReputationScorer") /\ tried(k)) =>
          LET in == runs[k].in
              out == runs[k].out
              N == Len(in.interaction_outcomes)
              averaged == \A f \in {"interaction_outcomes", "user_feedback_scores",
                                    "task_completion_rates", "response_quality_scores",
                                    "error_rates"} : divides(N, SeqSum(in[f]))
          IN
          /\ averaged => proved(k)
          /\ proved(k) =>
                /\ out.sufficient_data = 1 <=> N >= in.minimum_interactions
                /\ out.reputation_score # 0 => out.sufficient_data = 1

allEqual(values, v) == \A i \in DOMAIN values : values[i] = v

\* C29: the threshold comparisons of the verifiers are inclusive: for operands
\* in 0..1000 a score equal to a minimum threshold passes a >= check and a
\* score or incident count equal to a maximum threshold passes a <= check, in
\* the comparators and in the Training-Quality and Ethics verifiers built on
\* them.
C29_ThresholdsInclusive ==
    \A k \in DOMAIN runs :
       tried(k) =>
          LET in == runs[k].in
              out == runs[k].out
          IN
          /\ (isInstance(k, "GreaterEqThan") \/ isInstance(k, "LessEqThan"))
               => /\ proved(k)
                  /\ in.a = in.b => out.out = 1
                  /\ isInstance(k, "GreaterEqThan") => (out.out = 1 <=> in.a >= in.b)
                  /\ isInstance(k, "LessEqThan") => (out.out = 1 <=> in.a <= in.b)
          /\ (isInstance(k, "TrainingQualityVerifier")
                 /\ allEqual(in.quality_scores, in.min_quality_threshold))
               => proved(k) /\ out.quality_verified = 1
          /\ (isInstance(k, "EthicsComplianceVerifier")
                 /\ allEqual(in.bias_test_results, in.max_bias_threshold)
                 /\ allEqual(in.fairness_scores, in.min_fairness_score)
                 /\ SeqSum(in.harmful_content_flags) = in.max_harmful_rate)
               => proved(k) /\ out.ethics_verified = 1

\* C29 witness: an ethics run whose bias results equal the maximum 200, whose
\* fairness scores equal the minimum 700 and whose single harmful flag equals
\* the allowed count 1 is verified
C29_Witness ==
    \E k \in DOMAIN runs :
       /\ proved(k)
       /\ isInstance(k, "EthicsComplianceVerifier")
       /\ Len(runs[k].in.fairness_scores) > 1
       /\ allEqual(runs[k].in.bias_test_results, 200)
       /\ allEqual(runs[k].in.fairness_scores, 700)
       /\ SeqSum(runs[k].in.harmful_content_flags) = 1
       /\ runs[k].in.max_harmful_rate = 1
       /\ runs[k].out.ethics_verified = 1

\* bit i (from 0) of a bitmask
bitOf(bitmask, i) == (bitmask \div Pow2(i)) % 2

\* the supported_data_types input of the compliance hash inside a master hash:
\* master_hasher.inputs[3] is compliance_proof_hash, whose inputs[4] is
\* supported_data_types
supportedDataTypesOf(master_proof_hash) == master_proof_hash[5][6]

\* C30: DataTypeEncoder outputs the sum over i of permissions[i] * 2^i; for 0/1
\* flags bit i of the bitmask equals permissions[i], so that distinct permission
\* vectors give distinct bitmasks; the orchestrator, which sets all 8
\* permissions to 1, hashes the bitmask 255.
C30_DataTypeBitmask ==
    \A k \in DOMAIN runs :
       tried(k) =>
          LET in == runs[k].in
              out == runs[k].out
          IN
          /\ isInstance(k, "DataTypeEncoder") =>
                /\ proved(k)
                /\ out.bitmask = SumOver([i \in DOMAIN in.permissions |->
                                             in.permissions[i] * Pow2(i - 1)],
                                         DOMAIN in.permissions)
                /\ \A i \in DOMAIN in.permissions :
                      bitOf(out.bitmask, i - 1) = in.permissions[i]
                /\ \A other \in PermissionInputs :
                      (Len(other.permissions) = Len(in.permissions)
                         /\ other.permissions # in.permissions)
                        => DataTypeEncoder(other.permissions) # out.bitmask
          /\ (isInstance(k, "ZKAgentVerificationOrchestrator") /\ proved(k)) =>
                supportedDataTypesOf(out.master_proof_hash) = 255

\* C30 witness: the permissions 1, 0, 1, 1 are encoded as 1 + 4 + 8 = 13
C30_Witness ==
    \E k \in DOMAIN runs :
       /\ isInstance(k, "DataTypeEncoder") /\ proved(k)
       /\ runs[k].in.permissions = <<1, 0, 1, 1>>
       /\ runs[k].out.bitmask = 13

----------------------------------------------------------------------------
(* Claims about the verification outcome, capability ownership, the agent
   registry, the reputation token and governance *)

\* C31: a category boolean is set to true only by an accepted submission whose
\* public verified output is 1; when every submission carries verified = 0, no
\* category boolean and no isAgentFullyVerified becomes true.
C31_OutcomeGatesCategory ==
    \A id \in AgentIds :
       /\ categoryFlags(verificationResults[id]) = <<FALSE, FALSE, FALSE, FALSE>>
       /\ ~isAgentFullyVerified(id)

\* C32: a setAgentCapabilities call made by an address other than the agent's
\* creator is rejected and leaves the agent's supported types, basePrice,
\* complexityMultiplier and acceptingQueries unchanged (here every such call is
\* made by an address that created no agent).
C32_OnlyCreatorSetsCapabilities ==
    [][(last'.op = "setAgentCapabilities"
          /\ \A id \in AgentIds : agents[id].creator # Outsider)
         => /\ ~last'.ok
            /\ agentCapabilities' = agentCapabilities]_vars

\* the inheritance edges of all agents' lists whose source is fromAgent, as
\* pairs <<target agent, position in its list>>
edgesFrom(fromAgent) ==
    {<<to, i>> \in RegistryIds \X (1..(MaxInheritances + 2)) :
        /\ i <= Len(proofInheritances[to])
        /\ proofInheritances[to][i].fromAgent = fromAgent}

\* C33: for each edge (fromAgent, proofHash) in any agent's inheritance list,
\* proofHash is among fromAgent's currently recorded proof hashes.
C33_EdgesBackedByParentProofs ==
    \A to \in RegistryIds :
       \A i \in 1..Len(proofInheritances[to]) :
          LET edge == proofInheritances[to][i] IN
          proofExists(registryAgentOf(edge.fromAgent).proofHashes, edge.proofHash)

\* C34: for every agent P the counter proofRoyalties[P][owner of P] equals the
\* number of inheritance edges, across all agents' lists, whose fromAgent is P,
\* and every other royalty counter is 0.
C34_RoyaltiesMatchEdges ==
    \A P \in RegistryIds :
       \A a \in DOMAIN proofRoyalties[P] :
          proofRoyalties[P][a] =
             IF a = registryAgentOf(P).owner THEN Cardinality(edgesFrom(P)) ELSE 0

\* C34 witness: two edges from r1 are recorded and r1's owner is credited twice
C34_Witness ==
    /\ Cardinality(edgesFrom("r1")) = 2
    /\ proofRoyalties["r1"][registryAgentOf("r1").owner] = 2
    /\ last.op = "inheritProof" /\ last.ok

deactivated(agentId) ==
    registryAgentOf(agentId).owner # ZeroAddress /\ ~registryAgentOf(agentId).isActive

\* C35: deactivateAgent succeeds only for the agent's owner and leaves owner,
\* metadata, proof hashes and inheritance edges in place; a deactivated agent
\* never becomes active again, no updateProofs changes it, and no inheritProof
\* adds an edge to its list or an edge naming it as source.
C35_DeactivationIsPermanent ==
    [][/\ \A id \in RegistryIds, s \in Users :
             (deactivateAgent(id, s) /\ last'.ok)
                => /\ s = registryAgents[id].owner
                   /\ registryAgents' =
                         [registryAgents EXCEPT ![id] = [@ EXCEPT !.isActive = FALSE]]
                   /\ proofInheritances' = proofInheritances
       /\ \A id \in RegistryIds :
             deactivated(id)
                => /\ ~registryAgents'[id].isActive
                   /\ registryAgents'[id] = registryAgents[id]
                   /\ proofInheritances'[id] = proofInheritances[id]
                   /\ \A to \in RegistryIds :
                         Len(proofInheritances'[to]) > Len(proofInheritances[to])
                            => proofInheritances'[to][Len(proofInheritances'[to])].fromAgent # id
                   /\ \A l \in RegistryUpdates, s \in Users :
                         updateProofs(id, l, s) => ~last'.ok
                   /\ \A o \in RegistryIds, h \in RegistryProofHashes, s \in Users :
                         (inheritProof(id, o, h, s) \/ inheritProof(o, id, h, s))
                            => ~last'.ok]_vars

\* C35 witness: the deactivated agent r1 still has its owner, its proof and an
\* inheritance edge, and its owner's updateProofs has just been rejected
C35_Witness ==
    /\ deactivated("r1")
    /\ registryAgents["r1"].owner = "alice"
    /\ registryAgents["r1"].proofHashes # <<>>
    /\ proofInheritances["r1"] # <<>>
    /\ last = Receipt("updateProofs", FALSE, "Agent is not active")

\* C37: in the orchestrator at its instantiated size n_ethics_tests = 50,
\* ethics_verification_result and agent_fully_verified are 0 whenever more than
\* 5% of the harmful_content_flags are set.
C37_HarmfulCapFivePercent ==
    \A k \in DOMAIN runs :
       (isInstance(k, "ZKAgentVerificationOrchestrator") /\ proved(k)
          /\ Len(runs[k].in.harmful_content_flags) = MainEthicsTests
          /\ 100 * SeqSum(runs[k].in.harmful_content_flags)
                > 5 * Len(runs[k].in.harmful_content_flags))
         => /\ runs[k].out.ethics_verification_result = 0
            /\ runs[k].out.agent_fully_verified = 0

\* C36: in every execution in which all four category booleans of an agent
\* become true, a reputation token for that agent id, owned by the agent's
\* creator and carrying the stored reputation score, eventually exists.
C36_FullyVerifiedLeadsToToken ==
    \A id \in AgentIds :
       isAgentFullyVerified(id) ~>
          /\ agentToTokenId[id] # 0
          /\ ownerOfToken(agentToTokenId[id]) = agents[id].creator
          /\ reputationData[agentToTokenId[id]].reputationScore
                = verificationResults[id].reputationScore

\* every agent id has at most one token, token ids start at 1, and the data of
\* a token names the agent it was minted for
oneTokenPerAgent ==
    /\ \A t \in DOMAIN tokenOwners :
          /\ t >= FirstTokenId
          /\ t \in DOMAIN reputationData
          /\ agentToTokenId[reputationData[t].agentId] = t
    /\ \A id \in AgentIds : agentToTokenId[id] # 0 => tokenExists(agentToTokenId[id])

\* C38: each agent id has at most one token (a second mintReputationNFT for an
\* agent id that has a token is rejected, token ids start at 1), and a minted
\* token's owner is always the address it was minted to: no step changes the
\* owner of an existing token.
C38_UniqueAndSoulbound ==
    [][/\ oneTokenPerAgent'
       /\ \A t \in DOMAIN tokenOwners :
             t \in DOMAIN tokenOwners' /\ tokenOwners'[t] = tokenOwners[t]
       /\ \A id \in AgentIds :
             agentToTokenId[id] # 0 => agentToTokenId'[id] = agentToTokenId[id]
       /\ last'.op = "transferFrom" => ~last'.ok]_vars

\* C38 witness: a1 and a2 hold the tokens 1 and 2, and the owner of a token has
\* just been refused its transfer
C38_Witness ==
    /\ agentToTokenId["a1"] # 0 /\ agentToTokenId["a2"] # 0
    /\ agentToTokenId["a1"] # agentToTokenId["a2"]
    /\ last = Receipt("transferFrom", FALSE, "Reputation NFTs are non-transferable")

\* the tallies of a proposal
tallies(proposalId) == totalVotes(proposalOf(proposalId))

\* C39: each address contributes to a proposal's tallies at most once and only
\* by a vote cast between startTime and endTime of a proposal that was created:
\* an accepted vote is cast by an address that has not voted on a created
\* proposal, with a choice of at most 2 and a positive balance, within the
\* voting window, and adds exactly that balance to one tally; every other step
\* (a rejected vote included) changes no tally and no voter set.  By induction
\* the tallies of a proposal sum to the voting power of its voters at the time
\* of their votes.
C39_VotesCountOnce ==
    [][\A id \in 1..(MaxProposals + 2) :
          LET before == proposalOf(id)
              after == IF id \in DOMAIN proposals' THEN proposals'[id] ELSE ZeroProposal
          IN
          IF after.hasVoted # before.hasVoted \/ totalVotes(after) # totalVotes(before)
          THEN /\ last' = Receipt("vote", TRUE, NoError)
               /\ before.id = id /\ id < nextProposalId
               /\ before.startTime <= blockTimestamp /\ blockTimestamp <= before.endTime
               /\ \E voter \in GovCallers \ before.hasVoted :
                     /\ after.hasVoted = before.hasVoted \cup {voter}
                     /\ governanceBalance[voter] > 0
                     /\ after.voteChoice[voter] <= 2
                     /\ totalVotes(after) = totalVotes(before) + governanceBalance[voter]
                     /\ \/ after.forVotes = before.forVotes + governanceBalance[voter]
                        \/ after.againstVotes = before.againstVotes + governanceBalance[voter]
                        \/ after.abstainVotes = before.abstainVotes + governanceBalance[voter]
          ELSE /\ after.forVotes = before.forVotes
               /\ after.againstVotes = before.againstVotes
               /\ after.abstainVotes = before.abstainVotes]_vars

\* C39 witness: alice has voted on proposal 1 with her 150 tokens, bob with the
\* 200 tokens he held after alice's transfer, and a repeated vote has just been
\* rejected
C39_Witness ==
    /\ proposalOf(1).hasVoted = {"alice", "bob"}
    /\ tallies(1) = 350
    /\ last = Receipt("vote", FALSE, "Already voted")

\* C40: resolveDispute succeeds only for the owner, only for an id returned by
\* an earlier createDispute and only while resolved is false; the deposit is
\* returned to the complainant only when the dispute is upheld, and the amount
\* returned is the deposit taken at createDispute.
C40_DisputeResolvedOnce ==
    [][(last'.op = "resolveDispute" /\ last'.ok)
         => \E id \in 1..(MaxDisputes + 2) :
               LET dispute == disputeOf(id) IN
               /\ dispute.id = id /\ id < nextDisputeId
               /\ ~dispute.resolved
               /\ disputes' = withSlot(disputes, id,
                     [dispute EXCEPT !.resolved = TRUE,
                                     !.upheld = disputes'[id].upheld])
               /\ governanceBalance' =
                     IF disputes'[id].upheld
                     THEN governanceAfterTransfer(Gov, dispute.complainant, dispute.deposit)
                     ELSE governanceBalance]_vars

====
